---------------------------- MODULE Spec2Model ----------------------------
(***************************************************************************)
(* TOON codec (ptoon): the encoder (value tree -> text), the line writer,  *)
(* the primitive quoting rules, the stack-based line decoder, the          *)
(* normalizer of host values and the entry points encode() and decode()    *)
(* with their cached default instances.                                    *)
(*                                                                         *)
(* Text is a sequence of characters; a character is a one-character        *)
(* string.  A canonical value is a record tagged by t:                     *)
(*   [t |-> "null"], [t |-> "bool", b], [t |-> "int", n], [t |-> "str", s],*)
(*   [t |-> "float", s]  (the float denoted by the numeral s; only the     *)
(*                        decoder produces it),                            *)
(*   [t |-> "arr", items], [t |-> "obj", keys, vals]  (insertion order).   *)
(***************************************************************************)
EXTENDS Integers, Sequences, FiniteSets, TLC

VARIABLES
    input,        \* the call's argument: a value with options, or a text
    pc,           \* "init" | "encoded" | "lines" | "done" | "error"
    text,         \* the TOON text handed to decode
    tampered,     \* whether the text was edited after encode produced it
    lines,        \* Decoder.decode: lines
    indent_size,  \* Decoder.decode: indent_size
    line_num,     \* Decoder.decode: line_num
    stack,        \* Decoder.decode: stack of _Ctx
    root,         \* Decoder.decode: root
    err,          \* the ValueError raised, or NoErr
    warnings,     \* the records the encoder handed to logger.warning
    default_encoder,  \* ptoon/__init__.py: _default_encoder, None or the cached Encoder
    default_decoder,  \* ptoon/__init__.py: _default_decoder, None or the cached Decoder
    calls         \* the frames of the calls of encode() and decode() in progress, one per caller

\* the module globals and the frames of the public entry points
api == <<default_encoder, default_decoder, calls>>

\* the variables of one encode and decode run
codec == <<input, pc, text, tampered, lines, indent_size, line_num, stack, root, err, warnings>>

vars == <<input, pc, text, tampered, lines, indent_size, line_num, stack, root, err, warnings, default_encoder, default_decoder, calls>>

---------------------------------------------------------------------------
(* constants.py *)

LIST_ITEM_MARKER == <<"-">>
LIST_ITEM_PREFIX == <<"-", " ">>
COMMA == ","
COLON == ":"
SPACE == " "
PIPE == "|"
OPEN_BRACKET == "["
CLOSE_BRACKET == "]"
OPEN_BRACE == "{"
CLOSE_BRACE == "}"
NULL_LITERAL == <<"n", "u", "l", "l">>
TRUE_LITERAL == <<"t", "r", "u", "e">>
FALSE_LITERAL == <<"f", "a", "l", "s", "e">>
BACKSLASH == "\\"
DOUBLE_QUOTE == "\""
NEWLINE == "\n"
CARRIAGE_RETURN == "\r"
TAB == "\t"
DEFAULT_DELIMITER == COMMA
DELIMITERS == {COMMA, TAB, PIPE}

---------------------------------------------------------------------------
(* Python str primitives used by the codec *)

Digits == {"0", "1", "2", "3", "4", "5", "6", "7", "8", "9"}

Letters == {"a", "b", "c", "d", "e", "f", "g", "h", "i", "j", "k", "l", "m", "n", "o", "p", "q", "r",
            "s", "t", "u", "v", "w", "x", "y", "z",
            "A", "B", "C", "D", "E", "F", "G", "H", "I", "J", "K", "L", "M", "N", "O", "P", "Q", "R",
            "S", "T", "U", "V", "W", "X", "Y", "Z"}

\* str.isspace: the characters str.strip removes
Whitespace == {" ", "\t", "\n", "\r", "\f"}

\* str.splitlines: the line boundaries
LineBreaks == {"\n", "\r", "\f"}

RECURSIVE Concat(_)
Concat(ss) == IF ss = <<>> THEN <<>> ELSE Head(ss) \o Concat(Tail(ss))

RECURSIVE Join(_, _)
Join(sep, ss) ==
    IF ss = <<>> THEN <<>>
    ELSE IF Len(ss) = 1 THEN ss[1]
    ELSE ss[1] \o sep \o Join(sep, Tail(ss))

Slice(s, i, j) == IF j < i THEN <<>> ELSE SubSeq(s, i, j)

From(s, i) == Slice(s, i, Len(s))

StartsWith(s, p) == Len(s) >= Len(p) /\ SubSeq(s, 1, Len(p)) = p

Contains(s, c) == \E i \in 1..Len(s) : s[i] = c

\* str.find: the first index of c (1-based), 0 when absent
Find(s, c) == IF Contains(s, c) THEN CHOOSE i \in 1..Len(s) : s[i] = c /\ \A j \in 1..(i - 1) : s[j] # c ELSE 0

RECURSIVE LStrip(_)
LStrip(s) == IF s # <<>> /\ Head(s) \in Whitespace THEN LStrip(Tail(s)) ELSE s

RECURSIVE RStrip(_)
RStrip(s) == IF s # <<>> /\ s[Len(s)] \in Whitespace THEN RStrip(SubSeq(s, 1, Len(s) - 1)) ELSE s

Strip(s) == LStrip(RStrip(s))

RECURSIVE RStripNewlines(_)
RStripNewlines(s) == IF s # <<>> /\ s[Len(s)] = NEWLINE THEN RStripNewlines(SubSeq(s, 1, Len(s) - 1)) ELSE s

RECURSIVE Spaces(_)
Spaces(n) == IF n <= 0 THEN <<>> ELSE <<" ">> \o Spaces(n - 1)

DigitChar(d) == CASE d = 0 -> "0" [] d = 1 -> "1" [] d = 2 -> "2" [] d = 3 -> "3" [] d = 4 -> "4"
                  [] d = 5 -> "5" [] d = 6 -> "6" [] d = 7 -> "7" [] d = 8 -> "8" [] OTHER -> "9"

DigitVal(c) == CASE c = "0" -> 0 [] c = "1" -> 1 [] c = "2" -> 2 [] c = "3" -> 3 [] c = "4" -> 4
                 [] c = "5" -> 5 [] c = "6" -> 6 [] c = "7" -> 7 [] c = "8" -> 8 [] OTHER -> 9

RECURSIVE NatStr(_)
NatStr(n) == IF n < 10 THEN <<DigitChar(n)>> ELSE NatStr(n \div 10) \o <<DigitChar(n % 10)>>

\* str(int)
IntStr(n) == IF n < 0 THEN <<"-">> \o NatStr(-n) ELSE NatStr(n)

RECURSIVE StrNat(_)
StrNat(s) == IF s = <<>> THEN 0 ELSE 10 * StrNat(SubSeq(s, 1, Len(s) - 1)) + DigitVal(s[Len(s)])

\* int(str) for a text matching -?\d+
StrInt(s) == IF s[1] = "-" THEN -StrNat(Tail(s)) ELSE StrNat(s)

\* the index after the run of digits of s that starts at i
RECURSIVE SkipDigits(_, _)
SkipDigits(s, i) == IF i <= Len(s) /\ s[i] \in Digits THEN SkipDigits(s, i + 1) ELSE i

AllDigits(s) == s # <<>> /\ \A i \in 1..Len(s) : s[i] \in Digits

---------------------------------------------------------------------------
(* primitives.py *)

IsWordChar(c) == c \in Letters \/ c \in Digits \/ c = "_"

\* NUMERIC_REGEX, full match, ignoring case: -?\d+(?:\.\d+)?(?:e[+-]?\d+)?
NumericFullMatch(s) ==
    LET \* \d+$ from position i
        DigitsToEnd(i) == i <= Len(s) /\ \A j \in i..Len(s) : s[j] \in Digits
        \* (?:e[+-]?\d+)?$ from position i
        ExponentMatch(i) ==
            IF i <= Len(s) /\ s[i] \in {"e", "E"}
            THEN DigitsToEnd(IF i + 1 <= Len(s) /\ s[i + 1] \in {"+", "-"} THEN i + 2 ELSE i + 1)
            ELSE i = Len(s) + 1
        \* (?:\.\d+)?(?:e[+-]?\d+)?$ from position i; the fraction's digits end before j
        FractionMatch(i, j) ==
            IF i <= Len(s) /\ s[i] = "." /\ j > i + 1 THEN ExponentMatch(j) ELSE ExponentMatch(i)
        \* \d+(?:\.\d+)?(?:e[+-]?\d+)?$ from position i; the digits end before j
        MantissaMatch(i, j) == j > i /\ FractionMatch(j, SkipDigits(s, j + 1))
        i0 == IF s # <<>> /\ s[1] = "-" THEN 2 ELSE 1
    IN  MantissaMatch(i0, SkipDigits(s, i0))

\* OCTAL_REGEX, full match: 0\d+
OctalFullMatch(s) == Len(s) >= 2 /\ s[1] = "0" /\ AllDigits(Tail(s))

is_numeric_like(value) == OctalFullMatch(value) \/ NumericFullMatch(value)

\* STRUCTURAL_CHARS_REGEX search: [\[\]{}]
HasStructuralChar(s) == \E i \in 1..Len(s) : s[i] \in {OPEN_BRACKET, CLOSE_BRACKET, OPEN_BRACE, CLOSE_BRACE}

\* CONTROL_CHARS_REGEX search: [\n\r\t]
HasControlChar(s) == \E i \in 1..Len(s) : s[i] \in {NEWLINE, CARRIAGE_RETURN, TAB}

\* is_safe_unquoted without the numeric-literal test
is_safe_unquoted_NoNumeric(value, delimiter) ==
    /\ value # <<>>
    /\ value = Strip(value)
    /\ value \notin {TRUE_LITERAL, FALSE_LITERAL, NULL_LITERAL}
    /\ ~Contains(value, COLON)
    /\ ~Contains(value, DOUBLE_QUOTE)
    /\ ~Contains(value, BACKSLASH)
    /\ ~Contains(value, delimiter)
    /\ ~StartsWith(value, LIST_ITEM_MARKER)
    /\ ~HasStructuralChar(value)
    /\ ~HasControlChar(value)

\* is_safe_unquoted refusing only the strings that start with a hyphen and a space
is_safe_unquoted_HyphenSpace(value, delimiter) ==
    /\ value # <<>>
    /\ value = Strip(value)
    /\ value \notin {TRUE_LITERAL, FALSE_LITERAL, NULL_LITERAL}
    /\ ~Contains(value, COLON)
    /\ ~Contains(value, DOUBLE_QUOTE)
    /\ ~Contains(value, BACKSLASH)
    /\ ~Contains(value, delimiter)
    /\ ~StartsWith(value, LIST_ITEM_PREFIX)
    /\ ~HasStructuralChar(value)
    /\ ~HasControlChar(value)
    /\ ~is_numeric_like(value)

is_safe_unquoted(value, delimiter) ==
    /\ value # <<>>
    /\ value = Strip(value)
    /\ value \notin {TRUE_LITERAL, FALSE_LITERAL, NULL_LITERAL}
    /\ ~Contains(value, COLON)
    /\ ~Contains(value, DOUBLE_QUOTE)
    /\ ~Contains(value, BACKSLASH)
    /\ ~Contains(value, delimiter)
    /\ ~StartsWith(value, LIST_ITEM_MARKER)
    /\ ~HasStructuralChar(value)
    /\ ~HasControlChar(value)
    /\ ~is_numeric_like(value)

EscapeChar(ch, escape_tab) ==
    CASE ch = BACKSLASH -> <<BACKSLASH, BACKSLASH>>
      [] ch = DOUBLE_QUOTE -> <<BACKSLASH, DOUBLE_QUOTE>>
      [] ch = NEWLINE -> <<BACKSLASH, "n">>
      [] ch = CARRIAGE_RETURN -> <<BACKSLASH, "r">>
      [] ch = TAB /\ escape_tab -> <<BACKSLASH, "t">>
      [] OTHER -> <<ch>>

\* escape_string escaping every tab, whatever the delimiter
escape_string_AlwaysTab(value, delimiter, for_key) ==
    Concat([i \in 1..Len(value) |-> EscapeChar(value[i], TRUE)])

escape_string(value, delimiter, for_key) ==
    LET escape_tab == for_key \/ delimiter # TAB
    IN  Concat([i \in 1..Len(value) |-> EscapeChar(value[i], escape_tab)])

encode_string_literal(value, delimiter) ==
    IF is_safe_unquoted(value, delimiter) THEN value
    ELSE <<DOUBLE_QUOTE>> \o escape_string(value, delimiter, FALSE) \o <<DOUBLE_QUOTE>>

\* an int whose magnitude is beyond the integers of the model is kept by its
\* sign and decimal digits ([t |-> "long", neg, digits]) and str(value) is
\* read off them; _format_float on a float whose str() is a numeral with a
\* point and no exponent drops the trailing zeros, then a trailing point
encode_primitive(value, delimiter) ==
    LET RECURSIVE RStripChar(_, _)
        RStripChar(x, c) == IF x # <<>> /\ x[Len(x)] = c THEN RStripChar(SubSeq(x, 1, Len(x) - 1), c) ELSE x
    IN  CASE value.t = "null" -> NULL_LITERAL
          [] value.t = "bool" -> IF value.b THEN TRUE_LITERAL ELSE FALSE_LITERAL
          [] value.t = "int" -> IntStr(value.n)
          [] value.t = "long" -> (IF value.neg THEN <<"-">> ELSE <<>>) \o value.digits
          [] value.t = "float" -> IF Contains(value.s, ".") THEN RStripChar(RStripChar(value.s, "0"), ".") ELSE value.s
          [] OTHER -> encode_string_literal(value.s, delimiter)

\* VALID_KEY_REGEX, full match, ignoring case: [A-Z_][\w.]*
is_valid_unquoted_key(key) ==
    /\ key # <<>>
    /\ key[1] \in Letters \/ key[1] = "_"
    /\ \A i \in 2..Len(key) : IsWordChar(key[i]) \/ key[i] = "."

encode_key(key) ==
    IF is_valid_unquoted_key(key) THEN key
    ELSE <<DOUBLE_QUOTE>> \o escape_string(key, COMMA, TRUE) \o <<DOUBLE_QUOTE>>

join_encoded_values(values, delimiter) ==
    Join(<<delimiter>>, [i \in 1..Len(values) |-> encode_primitive(values[i], delimiter)])

\* key = <<>> stands for both key=None and key="" (each is falsy at `if key:`);
\* fields = <<>> stands for both fields=None and fields=[] (`if fields:`)
format_header(length, key, fields, delimiter, length_marker) ==
    LET key_str == IF key # <<>> THEN encode_key(key) ELSE <<>>
        length_marker_str == IF length_marker THEN <<"#">> ELSE <<>>
        delimiter_str == IF delimiter # DEFAULT_DELIMITER THEN <<delimiter>> ELSE <<>>
        fields_str == IF fields # <<>>
                      THEN <<OPEN_BRACE>> \o Join(<<delimiter>>, [i \in 1..Len(fields) |-> encode_key(fields[i])]) \o <<CLOSE_BRACE>>
                      ELSE <<>>
    IN  key_str \o <<OPEN_BRACKET>> \o length_marker_str \o IntStr(length) \o delimiter_str
          \o <<CLOSE_BRACKET>> \o fields_str \o <<COLON>>

---------------------------------------------------------------------------
(* normalize.py: the shape predicates over canonical values *)

Null == [t |-> "null"]
Bool(b) == [t |-> "bool", b |-> b]
Int_(n) == [t |-> "int", n |-> n]
Str(s) == [t |-> "str", s |-> s]
Float(s) == [t |-> "float", s |-> s]
Arr(items) == [t |-> "arr", items |-> items]
Obj(keys, vals) == [t |-> "obj", keys |-> keys, vals |-> vals]

is_json_primitive(value) == value.t \in {"null", "bool", "int", "long", "str", "float"}

is_json_array(value) == value.t = "arr"

is_json_object(value) == value.t = "obj"

is_array_of_primitives(value) == \A i \in 1..Len(value.items) : is_json_primitive(value.items[i])

is_array_of_arrays(value) == \A i \in 1..Len(value.items) : is_json_array(value.items[i])

is_array_of_objects(value) == \A i \in 1..Len(value.items) : is_json_object(value.items[i])

\* dict: key in obj, obj[key]
HasKey(obj, key) == \E i \in 1..Len(obj.keys) : obj.keys[i] = key

KeyIndex(obj, key) == CHOOSE i \in 1..Len(obj.keys) : obj.keys[i] = key

ObjGet(obj, key) == obj.vals[KeyIndex(obj, key)]

\* dict: obj[key] = v (an existing key keeps its position, a new key goes last)
ObjSet(obj, key, v) ==
    IF HasKey(obj, key)
    THEN [obj EXCEPT !.vals[KeyIndex(obj, key)] = v]
    ELSE [obj EXCEPT !.keys = Append(@, key), !.vals = Append(@, v)]

---------------------------------------------------------------------------
(* writer.py: LineWriter *)

\* LineWriter.push: the line appended for (depth, content)
PushLine(indent, depth, content) ==
    (IF indent = 0 THEN Spaces(depth) ELSE Spaces(indent * depth)) \o content

\* LineWriter.to_string
to_string(ls) == Join(<<NEWLINE>>, ls)

---------------------------------------------------------------------------
(* encoder.py: Encoder; self is [indent, delimiter, length_marker] and every
   operator returns the lines it pushes to the writer, in order *)

Header(self, length, key, fields) == format_header(length, key, fields, self.delimiter, self.length_marker)

format_inline_array(self, values, prefix) ==
    LET header == Header(self, Len(values.items), prefix, <<>>)
    IN  IF values.items # <<>>
        THEN header \o <<" ">> \o join_encoded_values(values.items, self.delimiter)
        ELSE header

is_tabular_array(rows, header, header_len) ==
    \A i \in 1..Len(rows.items) :
        LET row == rows.items[i]
        IN  /\ is_json_object(row)
            /\ Len(row.keys) = header_len
            /\ \A j \in 1..Len(header) : HasKey(row, header[j]) /\ is_json_primitive(ObjGet(row, header[j]))

\* _detect_tabular_header accepting an array of one object
detect_tabular_header_OneRow(rows) ==
    IF Len(rows.items) < 1 THEN <<>>
    ELSE IF ~is_json_object(rows.items[1]) \/ rows.items[1].keys = <<>> THEN <<>>
    ELSE IF is_tabular_array(rows, rows.items[1].keys, Len(rows.items[1].keys)) THEN rows.items[1].keys
    ELSE <<>>

\* <<>> is None
detect_tabular_header(rows) ==
    IF Len(rows.items) < 2 THEN <<>>
    ELSE IF ~is_json_object(rows.items[1]) \/ rows.items[1].keys = <<>> THEN <<>>
    ELSE IF is_tabular_array(rows, rows.items[1].keys, Len(rows.items[1].keys)) THEN rows.items[1].keys
    ELSE <<>>

write_tabular_rows(self, rows, header, depth) ==
    [i \in 1..Len(rows.items) |->
        PushLine(self.indent, depth,
                 join_encoded_values([j \in 1..Len(header) |-> ObjGet(rows.items[i], header[j])], self.delimiter))]

encode_array_of_objects_as_tabular(self, prefix, rows, header, depth) ==
    <<PushLine(self.indent, depth, Header(self, Len(rows.items), prefix, header))>>
      \o write_tabular_rows(self, rows, header, depth + 1)

encode_array_of_arrays_as_list_items(self, prefix, values, depth) ==
    <<PushLine(self.indent, depth, Header(self, Len(values.items), prefix, <<>>))>>
      \o [i \in 1..Len(values.items) |->
            PushLine(self.indent, depth + 1, LIST_ITEM_PREFIX \o format_inline_array(self, values.items[i], <<>>))]

RECURSIVE calculate_nesting_depth(_)
RECURSIVE MaxNesting(_, _)
MaxNesting(items, acc) ==
    IF items = <<>> THEN acc
    ELSE MaxNesting(Tail(items),
                    IF is_json_array(Head(items)) /\ 1 + calculate_nesting_depth(Head(items)) > acc
                    THEN 1 + calculate_nesting_depth(Head(items)) ELSE acc)

calculate_nesting_depth(arr) ==
    IF ~is_json_array(arr) THEN 0
    ELSE IF arr.items = <<>> THEN 1
    ELSE MaxNesting(arr.items, 1)

RECURSIVE encode_object(_, _, _)
RECURSIVE encode_key_value_pair(_, _, _, _)
RECURSIVE encode_array(_, _, _, _)
RECURSIVE encode_mixed_array_as_list_items(_, _, _, _)
RECURSIVE encode_object_as_list_item(_, _, _)

encode_object(self, value, depth) ==
    Concat([i \in 1..Len(value.keys) |-> encode_key_value_pair(self, value.keys[i], value.vals[i], depth)])

encode_key_value_pair(self, key, value, depth) ==
    IF is_json_primitive(value)
    THEN <<PushLine(self.indent, depth, encode_key(key) \o <<COLON, " ">> \o encode_primitive(value, self.delimiter))>>
    ELSE IF is_json_array(value)
    THEN encode_array(self, key, value, depth)
    ELSE <<PushLine(self.indent, depth, encode_key(key) \o <<COLON>>)>> \o encode_object(self, value, depth + 1)

encode_array(self, key, value, depth) ==
    IF value.items = <<>>
    THEN <<PushLine(self.indent, depth, Header(self, 0, key, <<>>))>>
    ELSE IF is_array_of_primitives(value)
    THEN <<PushLine(self.indent, depth, format_inline_array(self, value, key))>>
    ELSE IF is_array_of_arrays(value) /\ \A i \in 1..Len(value.items) : is_array_of_primitives(value.items[i])
    THEN encode_array_of_arrays_as_list_items(self, key, value, depth)
    ELSE IF is_array_of_objects(value) /\ detect_tabular_header(value) # <<>>
    THEN encode_array_of_objects_as_tabular(self, key, value, detect_tabular_header(value), depth)
    ELSE encode_mixed_array_as_list_items(self, key, value, depth)

\* one element of a list-format array; an array that is not an array of
\* primitives pushes nothing
MixedItem(self, item, depth) ==
    IF is_json_primitive(item)
    THEN <<PushLine(self.indent, depth, LIST_ITEM_PREFIX \o encode_primitive(item, self.delimiter))>>
    ELSE IF is_json_array(item)
    THEN IF is_array_of_primitives(item)
         THEN <<PushLine(self.indent, depth, LIST_ITEM_PREFIX \o format_inline_array(self, item, <<>>))>>
         ELSE <<>>
    ELSE encode_object_as_list_item(self, item, depth)

encode_mixed_array_as_list_items(self, prefix, items, depth) ==
    <<PushLine(self.indent, depth, Header(self, Len(items.items), prefix, <<>>))>>
      \o Concat([i \in 1..Len(items.items) |-> MixedItem(self, items.items[i], depth + 1)])

\* the hyphen line and body of the item's first field
FirstField(self, first_key, first_value, depth) ==
    IF is_json_primitive(first_value)
    THEN <<PushLine(self.indent, depth,
                    LIST_ITEM_PREFIX \o encode_key(first_key) \o <<COLON, " ">> \o encode_primitive(first_value, self.delimiter))>>
    ELSE IF is_json_array(first_value)
    THEN IF is_array_of_primitives(first_value)
         THEN <<PushLine(self.indent, depth, LIST_ITEM_PREFIX \o format_inline_array(self, first_value, first_key))>>
         ELSE IF is_array_of_objects(first_value) /\ detect_tabular_header(first_value) # <<>>
         THEN <<PushLine(self.indent, depth,
                         LIST_ITEM_PREFIX \o Header(self, Len(first_value.items), first_key, detect_tabular_header(first_value)))>>
                \o write_tabular_rows(self, first_value, detect_tabular_header(first_value), depth + 2)
         ELSE <<PushLine(self.indent, depth, LIST_ITEM_PREFIX \o Header(self, Len(first_value.items), first_key, <<>>))>>
                \o Concat([i \in 1..Len(first_value.items) |-> MixedItem(self, first_value.items[i], depth + 2)])
    ELSE <<PushLine(self.indent, depth, LIST_ITEM_PREFIX \o encode_key(first_key) \o <<COLON>>)>>
           \o encode_object(self, first_value, depth + 2)

encode_object_as_list_item(self, obj, depth) ==
    IF obj.keys = <<>>
    THEN <<PushLine(self.indent, depth, LIST_ITEM_PREFIX)>>
    ELSE FirstField(self, obj.keys[1], obj.vals[1], depth)
           \o Concat([i \in 1..(Len(obj.keys) - 1) |-> encode_key_value_pair(self, obj.keys[i + 1], obj.vals[i + 1], depth + 1)])

\* Encoder.encode, the calls of logger.warning in the order they are made:
\* one in _encode_mixed_array_as_list_items for an element that is an array,
\* is not an array of primitives and has nesting depth 2 or more; the loops
\* of _encode_object_as_list_item make none
encode_warnings(value) ==
    LET RECURSIVE WObject(_), WPair(_), WMixed(_), WListItem(_)
        WItems(items) ==
            Concat([i \in 1..Len(items) |-> IF is_json_object(items[i]) THEN WListItem(items[i]) ELSE <<>>])
        WObject(obj) == Concat([i \in 1..Len(obj.vals) |-> WPair(obj.vals[i])])
        WPair(v) ==
            IF is_json_primitive(v) THEN <<>>
            ELSE IF ~is_json_array(v) THEN WObject(v)
            ELSE IF \/ v.items = <<>>
                    \/ is_array_of_primitives(v)
                    \/ is_array_of_arrays(v) /\ \A i \in 1..Len(v.items) : is_array_of_primitives(v.items[i])
                    \/ is_array_of_objects(v) /\ detect_tabular_header(v) # <<>>
            THEN <<>>
            ELSE WMixed(v)
        WMixed(arr) ==
            Concat([i \in 1..Len(arr.items) |->
                      LET item == arr.items[i]
                      IN  IF is_json_primitive(item) THEN <<>>
                          ELSE IF is_json_array(item)
                          THEN IF ~is_array_of_primitives(item) /\ calculate_nesting_depth(item) >= 2
                               THEN <<[depth |-> calculate_nesting_depth(item) + 1]>>
                               ELSE <<>>
                          ELSE WListItem(item)])
        WListItem(obj) ==
            IF obj.keys = <<>> THEN <<>>
            ELSE (LET fv == obj.vals[1]
                  IN  IF is_json_primitive(fv) THEN <<>>
                      ELSE IF ~is_json_array(fv) THEN WObject(fv)
                      ELSE IF is_array_of_primitives(fv) \/ (is_array_of_objects(fv) /\ detect_tabular_header(fv) # <<>>)
                      THEN <<>>
                      ELSE WItems(fv.items))
                 \o Concat([i \in 1..(Len(obj.keys) - 1) |-> WPair(obj.vals[i + 1])])
    IN  WPair(value)

\* Encoder._encode_value
encode_value(self, value) ==
    IF is_json_primitive(value) THEN encode_primitive(value, self.delimiter)
    ELSE IF is_json_array(value) THEN to_string(encode_array(self, <<>>, value, 0))
    ELSE to_string(encode_object(self, value, 0))

---------------------------------------------------------------------------
(* decoder.py: Decoder, the scanning helpers.  An index is 1-based and 0
   stands for Python's -1; a helper that can raise returns a record whose
   err field is NoErr or the error raised. *)

NoErr == [kind |-> "none", expected |-> 0, found |-> 0]

\* Decoder._err: the error's detail, kept as its kind and the two counts it names
Err(kind) == [kind |-> kind, expected |-> 0, found |-> 0]

ErrCounts(kind, expected, found) == [kind |-> kind, expected |-> expected, found |-> found]

\* Decoder._count_leading_spaces: -1 when a tab is met in the indentation
RECURSIVE CountLeadingFrom(_, _)
CountLeadingFrom(line, i) ==
    IF i > Len(line) THEN i - 1
    ELSE IF line[i] = " " THEN CountLeadingFrom(line, i + 1)
    ELSE IF line[i] = TAB THEN -1
    ELSE i - 1

count_leading_spaces(line) == CountLeadingFrom(line, 1)

RECURSIVE FindColonFrom(_, _, _, _, _, _)
FindColonFrom(s, i, in_quotes, esc, b, c) ==
    IF i > Len(s) THEN 0
    ELSE IF esc THEN FindColonFrom(s, i + 1, in_quotes, FALSE, b, c)
    ELSE IF s[i] = BACKSLASH THEN FindColonFrom(s, i + 1, in_quotes, TRUE, b, c)
    ELSE IF s[i] = DOUBLE_QUOTE THEN FindColonFrom(s, i + 1, ~in_quotes, esc, b, c)
    ELSE IF in_quotes THEN FindColonFrom(s, i + 1, in_quotes, esc, b, c)
    ELSE IF s[i] = OPEN_BRACKET THEN FindColonFrom(s, i + 1, in_quotes, esc, b + 1, c)
    ELSE IF s[i] = CLOSE_BRACKET /\ b > 0 THEN FindColonFrom(s, i + 1, in_quotes, esc, b - 1, c)
    ELSE IF s[i] = OPEN_BRACE THEN FindColonFrom(s, i + 1, in_quotes, esc, b, c + 1)
    ELSE IF s[i] = CLOSE_BRACE /\ c > 0 THEN FindColonFrom(s, i + 1, in_quotes, esc, b, c - 1)
    ELSE IF s[i] = COLON /\ b = 0 /\ c = 0 THEN i
    ELSE FindColonFrom(s, i + 1, in_quotes, esc, b, c)

find_colon_index(s) == FindColonFrom(s, 1, FALSE, FALSE, 0, 0)

\* <<left, right>>
split_first_colon(s) ==
    LET i == find_colon_index(s)
    IN  IF i = 0 THEN <<s, <<>>>>
        ELSE <<RStrip(Slice(s, 1, i - 1)), LStrip(From(s, i + 1))>>

looks_object_line(content) == find_colon_index(content) # 0

RECURSIVE LooksHeaderFrom(_, _, _, _, _)
LooksHeaderFrom(left, i, in_quotes, esc, found_open_bracket) ==
    IF i > Len(left) THEN FALSE
    ELSE IF esc THEN LooksHeaderFrom(left, i + 1, in_quotes, FALSE, found_open_bracket)
    ELSE IF left[i] = BACKSLASH THEN LooksHeaderFrom(left, i + 1, in_quotes, TRUE, found_open_bracket)
    ELSE IF left[i] = DOUBLE_QUOTE THEN LooksHeaderFrom(left, i + 1, ~in_quotes, esc, found_open_bracket)
    ELSE IF in_quotes THEN LooksHeaderFrom(left, i + 1, in_quotes, esc, found_open_bracket)
    ELSE IF left[i] = OPEN_BRACKET THEN LooksHeaderFrom(left, i + 1, in_quotes, esc, TRUE)
    ELSE IF found_open_bracket /\ left[i] = CLOSE_BRACKET THEN TRUE
    ELSE IF left[i] = OPEN_BRACE THEN FALSE
    ELSE LooksHeaderFrom(left, i + 1, in_quotes, esc, found_open_bracket)

looks_header_token(left) == LooksHeaderFrom(left, 1, FALSE, FALSE, FALSE)

is_quoted(s) == Len(s) >= 2 /\ s[1] = DOUBLE_QUOTE /\ s[Len(s)] = DOUBLE_QUOTE

\* UNESCAPE_SEQUENCES.get(ch): <<>> is None
Unescape(ch) ==
    CASE ch = "n" -> <<NEWLINE>>
      [] ch = "r" -> <<CARRIAGE_RETURN>>
      [] ch = "t" -> <<TAB>>
      [] ch = DOUBLE_QUOTE -> <<DOUBLE_QUOTE>>
      [] ch = BACKSLASH -> <<BACKSLASH>>
      [] OTHER -> <<>>

RECURSIVE UnquoteFrom(_, _, _, _)
UnquoteFrom(inner, i, esc, out) ==
    IF i > Len(inner)
    THEN IF esc THEN [err |-> Err("unclosed_escape"), s |-> <<>>] ELSE [err |-> NoErr, s |-> out]
    ELSE IF esc
    THEN IF Unescape(inner[i]) = <<>> THEN [err |-> Err("invalid_escape"), s |-> <<>>]
         ELSE UnquoteFrom(inner, i + 1, FALSE, out \o Unescape(inner[i]))
    ELSE IF inner[i] = BACKSLASH THEN UnquoteFrom(inner, i + 1, TRUE, out)
    ELSE UnquoteFrom(inner, i + 1, FALSE, Append(out, inner[i]))

\* [err, s]
unquote_string(s) == UnquoteFrom(Slice(s, 2, Len(s) - 1), 1, FALSE, <<>>)

\* [err, s]
parse_key_token(token) ==
    LET t == Strip(token)
    IN  IF is_quoted(t) THEN unquote_string(t) ELSE [err |-> NoErr, s |-> t]

is_number_like(s) == NumericFullMatch(s)

\* no numeral is held back as a string
has_forbidden_leading_zeros_Never(s) == FALSE

has_forbidden_leading_zeros(s) ==
    IF s = <<>> THEN FALSE
    ELSE LET body == IF s[1] = "-" THEN Tail(s) ELSE s
         IN  /\ body # <<>>
             /\ body[1] \in Digits
             /\ ~(Contains(body, ".") \/ Contains(body, "e") \/ Contains(body, "E"))
             /\ Len(body) > 1
             /\ body[1] = "0"

\* INTEGER_REGEX, full match: -?\d+
IntegerFullMatch(t) == AllDigits(IF t # <<>> /\ t[1] = "-" THEN Tail(t) ELSE t)

\* [err, v]
parse_primitive(s) ==
    LET t == Strip(s)
    IN  IF t = NULL_LITERAL THEN [err |-> NoErr, v |-> Null]
        ELSE IF t = TRUE_LITERAL THEN [err |-> NoErr, v |-> Bool(TRUE)]
        ELSE IF t = FALSE_LITERAL THEN [err |-> NoErr, v |-> Bool(FALSE)]
        ELSE IF is_quoted(t)
        THEN LET u == unquote_string(t) IN [err |-> u.err, v |-> Str(u.s)]
        ELSE IF is_number_like(t)
        THEN IF has_forbidden_leading_zeros(t) THEN [err |-> NoErr, v |-> Str(t)]
             ELSE IF IntegerFullMatch(t) THEN [err |-> NoErr, v |-> Int_(StrInt(t))]
             ELSE [err |-> NoErr, v |-> Float(t)]
        ELSE [err |-> NoErr, v |-> Str(t)]

\* Decoder._split_values (the fast path is this scan on a text without quote
\* or backslash)
RECURSIVE SplitFrom(_, _, _, _, _, _, _)
SplitFrom(s, delimiter, i, in_quotes, esc, buf, parts) ==
    IF i > Len(s) THEN Append(parts, Strip(buf))
    ELSE IF esc THEN SplitFrom(s, delimiter, i + 1, in_quotes, FALSE, Append(buf, s[i]), parts)
    ELSE IF s[i] = BACKSLASH THEN SplitFrom(s, delimiter, i + 1, in_quotes, TRUE, Append(buf, s[i]), parts)
    ELSE IF s[i] = DOUBLE_QUOTE THEN SplitFrom(s, delimiter, i + 1, ~in_quotes, esc, Append(buf, s[i]), parts)
    ELSE IF ~in_quotes /\ s[i] = delimiter
    THEN SplitFrom(s, delimiter, i + 1, in_quotes, esc, <<>>, Append(parts, Strip(buf)))
    ELSE SplitFrom(s, delimiter, i + 1, in_quotes, esc, Append(buf, s[i]), parts)

split_values(s, delimiter) == IF s = <<>> THEN <<>> ELSE SplitFrom(s, delimiter, 1, FALSE, FALSE, <<>>, <<>>)

\* the first error of a sequence of results, NoErr when none has one
RECURSIVE FirstErr(_)
FirstErr(rs) ==
    IF rs = <<>> THEN NoErr
    ELSE IF Head(rs).err # NoErr THEN Head(rs).err
    ELSE FirstErr(Tail(rs))

\* a header whose marker is read and then ignored
HeaderLengthMatch_CommaOnly(inside) ==
    LET i0 == IF inside # <<>> /\ inside[1] = "#" THEN 2 ELSE 1
        i1 == SkipDigits(inside, i0)
        hasDelim == i1 = Len(inside) /\ inside[i1] \in {PIPE, TAB}
    IN  IF i1 > i0 /\ (i1 = Len(inside) + 1 \/ hasDelim)
        THEN [ok |-> TRUE, length |-> StrNat(Slice(inside, i0, i1 - 1)), delimiter |-> DEFAULT_DELIMITER]
        ELSE [ok |-> FALSE, length |-> 0, delimiter |-> DEFAULT_DELIMITER]

\* HEADER_LENGTH_REGEX, full match: #?(\d+)([\|\t])?
\* [ok, length, delimiter]
HeaderLengthMatch(inside) ==
    LET i0 == IF inside # <<>> /\ inside[1] = "#" THEN 2 ELSE 1
        i1 == SkipDigits(inside, i0)
        hasDelim == i1 = Len(inside) /\ inside[i1] \in {PIPE, TAB}
    IN  IF i1 > i0 /\ (i1 = Len(inside) + 1 \/ hasDelim)
        THEN [ok |-> TRUE, length |-> StrNat(Slice(inside, i0, i1 - 1)),
              delimiter |-> IF hasDelim THEN (IF inside[i1] = TAB THEN TAB ELSE PIPE) ELSE DEFAULT_DELIMITER]
        ELSE [ok |-> FALSE, length |-> 0, delimiter |-> DEFAULT_DELIMITER]

HeaderErr(kind) == [err |-> Err(kind), key |-> <<>>, length |-> 0, fields |-> <<>>, has_fields |-> FALSE, delimiter |-> DEFAULT_DELIMITER]

\* Decoder._parse_header, the {fields} block: the field names parsed
HeaderFields(key, m, fields) ==
    IF FirstErr(fields) # NoErr THEN HeaderErr("invalid_field_name")
    ELSE [err |-> NoErr, key |-> key, length |-> m.length,
          fields |-> [i \in 1..Len(fields) |-> fields[i].s], has_fields |-> TRUE, delimiter |-> m.delimiter]

\* Decoder._parse_header, what follows the closing bracket
HeaderSuffix(key, m, after_bracket) ==
    IF ~m.ok THEN HeaderErr("invalid_header_length_block")
    ELSE IF after_bracket = <<>>
    THEN [err |-> NoErr, key |-> key, length |-> m.length, fields |-> <<>>, has_fields |-> FALSE, delimiter |-> m.delimiter]
    ELSE IF after_bracket[1] # OPEN_BRACE THEN HeaderErr("invalid_header_suffix")
    ELSE IF after_bracket[Len(after_bracket)] # CLOSE_BRACE THEN HeaderErr("header_missing_close_brace")
    ELSE LET toks == split_values(Slice(after_bracket, 2, Len(after_bracket) - 1), m.delimiter)
         IN  HeaderFields(key, m, [i \in 1..Len(toks) |-> parse_key_token(Strip(toks[i]))])

\* Decoder._parse_header, the [N] block after the key
HeaderBracket(key, rest, idx_close) ==
    IF key.err # NoErr THEN HeaderErr("invalid_header_key")
    ELSE IF idx_close = 0 THEN HeaderErr("header_missing_close_bracket")
    ELSE HeaderSuffix(key.s, HeaderLengthMatch(Slice(rest, 1, idx_close - 1)), Strip(From(rest, idx_close + 1)))

\* Decoder._parse_header, the key before the first open bracket
HeaderKey(key_part, rest) ==
    HeaderBracket(IF key_part # <<>> THEN parse_key_token(key_part) ELSE [err |-> NoErr, s |-> <<>>],
                  rest, Find(rest, CLOSE_BRACKET))

\* Decoder._parse_header: [err, key, length, fields, has_fields, delimiter]; key = <<>>
\* stands for key None and key "" (the callers test `not h["key"]`), has_fields
\* tells fields = [] from fields None
parse_header(header) ==
    LET s == Strip(header)
        idx_open == Find(s, OPEN_BRACKET)
    IN  IF idx_open = 0 THEN HeaderErr("header_missing_open_bracket")
        ELSE HeaderKey(RStrip(Slice(s, 1, idx_open - 1)), From(s, idx_open + 1))

PrimitivesOf(parts) == [i \in 1..Len(parts) |-> parse_primitive(parts[i])]

\* Decoder._parse_inline_array, the values split and parsed
InlineItems(h, prims) ==
    IF FirstErr(prims) # NoErr THEN [err |-> FirstErr(prims), v |-> Null]
    ELSE IF h.length # Len(prims) THEN [err |-> ErrCounts("inline_length_mismatch", h.length, Len(prims)), v |-> Null]
    ELSE [err |-> NoErr, v |-> Arr([i \in 1..Len(prims) |-> prims[i].v])]

\* Decoder._parse_inline_array: [err, v]
parse_inline_array(h, values_str) ==
    IF Strip(values_str) = <<>>
    THEN IF h.length = 0 THEN [err |-> NoErr, v |-> Arr(<<>>)]
         ELSE [err |-> ErrCounts("inline_length_mismatch", h.length, 0), v |-> Null]
    ELSE InlineItems(h, PrimitivesOf(split_values(values_str, h.delimiter)))

---------------------------------------------------------------------------
(* decoder.py: the context stack.  ctx.obj / ctx.arr alias a node of the tree
   under root; the model keeps the node's path from root (child indexes) and
   reads and writes the node through it. *)

Child(v, i) == IF v.t = "arr" THEN v.items[i] ELSE v.vals[i]

RECURSIVE GetAt(_, _)
GetAt(v, path) == IF path = <<>> THEN v ELSE GetAt(Child(v, Head(path)), Tail(path))

RECURSIVE SetAt(_, _, _)
SetAt(v, path, new) ==
    IF path = <<>> THEN new
    ELSE IF v.t = "arr" THEN [v EXCEPT !.items[Head(path)] = SetAt(@, Tail(path), new)]
    ELSE [v EXCEPT !.vals[Head(path)] = SetAt(@, Tail(path), new)]

\* _Ctx.__init__
Ctx(kind, depth, path) ==
    [kind |-> kind, depth |-> depth, content_depth |-> depth + 1, path |-> path,
     expected |-> 0, fields |-> <<>>, delimiter |-> DEFAULT_DELIMITER, from_list_item |-> FALSE]

Top(d) == d.stack[Len(d.stack)]

Pop(st) == SubSeq(st, 1, Len(st) - 1)

Raise(d, e) == [d EXCEPT !.err = e]

\* len(ctx.arr)
ArrLen(d, ctx) == Len(GetAt(d.root, ctx.path).items)

\* ctx.obj[key] = v for the context on top of the stack
SetKey(d, key, v) ==
    LET ctx == Top(d) IN [d EXCEPT !.root = SetAt(@, ctx.path, ObjSet(GetAt(d.root, ctx.path), key, v))]

\* the path of ctx.obj[key], once set
KeyPath(d, ctx, key) == Append(ctx.path, KeyIndex(GetAt(d.root, ctx.path), key))

\* ctx.arr.append(v) for the context on top of the stack
AppendItem(d, v) ==
    LET ctx == Top(d) IN [d EXCEPT !.root = SetAt(@, ctx.path, Arr(Append(GetAt(d.root, ctx.path).items, v)))]

Push(d, ctx) == [d EXCEPT !.stack = Append(@, ctx)]

RECURSIVE pop_completed_tabular(_)
pop_completed_tabular(d) ==
    IF d.stack # <<>> /\ Top(d).kind = "array_tabular" /\ ArrLen(d, Top(d)) >= Top(d).expected
    THEN pop_completed_tabular([d EXCEPT !.stack = Pop(@)])
    ELSE d

\* the array context opened by a header h for the node at path
ArrayCtx(kind, depth, path, h) ==
    [Ctx(kind, depth, path) EXCEPT !.expected = h.length, !.fields = h.fields, !.delimiter = h.delimiter]

\* arr = [] under the header's key, and the array context pushed
OpenArray(d, kind, depth, h) ==
    LET d1 == SetKey(d, h.key, Arr(<<>>))
    IN  Push(d1, ArrayCtx(kind, depth, KeyPath(d1, Top(d), h.key), h))

\* {} under key, and its object context pushed
OpenObject(d, key, depth, content_depth) ==
    LET d1 == SetKey(d, key, Obj(<<>>, <<>>))
    IN  Push(d1, [Ctx("object", depth, KeyPath(d1, Top(d), key)) EXCEPT !.content_depth = content_depth])

\* ctx.obj[key] = the value parsed, unless parsing it raised
SetParsed(d, key, r) == IF r.err # NoErr THEN Raise(d, r.err) ELSE SetKey(d, key, r.v)

\* Decoder._parse_object_line_into, the line key[N]...: right
ObjectHeaderLine(d, h, right, depth) ==
    IF h.err # NoErr THEN Raise(d, h.err)
    ELSE IF h.key = <<>> THEN Raise(d, Err("header_needs_key"))
    ELSE IF h.has_fields
    THEN IF right # <<>> THEN Raise(d, Err("tabular_inline_values")) ELSE OpenArray(d, "array_tabular", depth, h)
    ELSE IF right # <<>> THEN SetParsed(d, h.key, parse_inline_array(h, right))
    ELSE OpenArray(d, "array_list", depth, h)

\* Decoder._parse_object_line_into, the entry key: [N]: values
ObjectInlineValue(d, key, vh, values) ==
    IF vh.err # NoErr THEN Raise(d, vh.err) ELSE SetParsed(d, key, parse_inline_array(vh, values))

RECURSIVE parse_object_line_into(_, _, _)

\* Decoder._parse_object_line_into, the entry key: value
ObjectEntry(d, key, value, depth) ==
    IF key.err # NoErr THEN Raise(d, Err("invalid_object_key"))
    ELSE IF value = <<>>
    THEN OpenObject(d, key.s, depth, IF Top(d).from_list_item /\ depth = Top(d).depth THEN depth + 2 ELSE depth + 1)
    ELSE IF value[1] = OPEN_BRACKET
    THEN LET vs == split_first_colon(value) IN ObjectInlineValue(d, key.s, parse_header(vs[1]), vs[2])
    ELSE IF find_colon_index(value) # 0 /\ value[1] # DOUBLE_QUOTE
    THEN parse_object_line_into(OpenObject(d, key.s, depth + 1, depth + 1), value, depth + 1)
    ELSE SetParsed(d, key.s, parse_primitive(value))

\* Decoder._parse_object_line_into, the line split at its first colon, at idx
ObjectEntryLine(d, content, idx, depth) ==
    LET key_token == Strip(Slice(content, 1, idx - 1))
    IN  IF idx = 0 THEN Raise(d, Err("invalid_object_entry"))
        ELSE IF key_token = <<>> THEN Raise(d, Err("missing_key"))
        ELSE ObjectEntry(d, parse_key_token(key_token), LStrip(From(content, idx + 1)), depth)

\* Decoder._parse_object_line_into, for the object context on top of the stack
parse_object_line_into(d, content, depth) ==
    LET lr == split_first_colon(content)
    IN  IF looks_header_token(lr[1]) THEN ObjectHeaderLine(d, parse_header(lr[1]), lr[2], depth)
        ELSE ObjectEntryLine(d, content, find_colon_index(content), depth)

\* ctx.arr.append of the value parsed, unless parsing it raised
AppendParsed(d, r) == IF r.err # NoErr THEN Raise(d, r.err) ELSE AppendItem(d, r.v)

\* Decoder._parse_list_item_into, the item - [N]: values
ListInlineItem(d, h, values) ==
    IF h.err # NoErr THEN Raise(d, h.err) ELSE AppendParsed(d, parse_inline_array(h, values))

\* Decoder._parse_list_item_into, the item - key: value; d1 holds the new {} appended
ListObjectItem(d1, rest, depth) ==
    parse_object_line_into(
        Push(d1, [Ctx("object", depth, Append(Top(d1).path, ArrLen(d1, Top(d1)))) EXCEPT !.from_list_item = TRUE]),
        rest, depth)

\* Decoder._parse_list_item_into, what follows the hyphen
ListItem(d, rest, depth) ==
    IF rest = <<>> THEN AppendItem(d, Obj(<<>>, <<>>))
    ELSE IF rest[1] = OPEN_BRACKET
    THEN LET hs == split_first_colon(rest) IN ListInlineItem(d, parse_header(hs[1]), hs[2])
    ELSE IF find_colon_index(rest) # 0 THEN ListObjectItem(AppendItem(d, Obj(<<>>, <<>>)), rest, depth)
    ELSE AppendParsed(d, parse_primitive(rest))

\* Decoder._parse_list_item_into, for the list context on top of the stack
parse_list_item_into(d, content, depth) ==
    IF ~StartsWith(content, LIST_ITEM_PREFIX) THEN Raise(d, Err("list_item_prefix"))
    ELSE ListItem(d, Strip(From(content, Len(LIST_ITEM_PREFIX) + 1)), depth)

\* row[k] = v over zip(fields, parts)
RECURSIVE ZipRow(_, _, _)
ZipRow(fields, vals, row) ==
    IF fields = <<>> THEN row ELSE ZipRow(Tail(fields), Tail(vals), ObjSet(row, Head(fields), Head(vals)))

\* _parse_tabular_row_into filling the row from the last field to the first
parse_tabular_row_into_Reversed(d, content) ==
    LET ctx == Top(d)
        parts == split_values(content, ctx.delimiter)
        prims == [i \in 1..Len(parts) |-> parse_primitive(parts[i])]
        n == Len(parts)
    IN  IF Len(parts) # Len(ctx.fields) THEN Raise(d, ErrCounts("row_field_count", Len(ctx.fields), Len(parts)))
        ELSE IF FirstErr(prims) # NoErr THEN Raise(d, FirstErr(prims))
        ELSE AppendItem(d, ZipRow([i \in 1..n |-> ctx.fields[n + 1 - i]], [i \in 1..n |-> prims[n + 1 - i].v],
                                  Obj(<<>>, <<>>)))

\* Decoder._parse_tabular_row_into, the row's values parsed
TabularRow(d, fields, prims) ==
    IF Len(prims) # Len(fields) THEN Raise(d, ErrCounts("row_field_count", Len(fields), Len(prims)))
    ELSE IF FirstErr(prims) # NoErr THEN Raise(d, FirstErr(prims))
    ELSE AppendItem(d, ZipRow(fields, [i \in 1..Len(prims) |-> prims[i].v], Obj(<<>>, <<>>)))

\* Decoder._parse_tabular_row_into, for the tabular context on top of the stack
parse_tabular_row_into(d, content) ==
    TabularRow(d, Top(d).fields, PrimitivesOf(split_values(content, Top(d).delimiter)))

\* the length check catching only the lists with too few items
ListMismatch_OnlyFewer(d, ctx) == ctx.kind = "array_list" /\ ArrLen(d, ctx) < ctx.expected

\* the length check made wherever a list context is popped or finalized
ListMismatch(d, ctx) == ctx.kind = "array_list" /\ ArrLen(d, ctx) # ctx.expected

MismatchErr(d, ctx) == ErrCounts("array_length_mismatch", ctx.expected, ArrLen(d, ctx))

\* the dedent loops of Decoder.decode (lines 134-153 with pop_tab, 245-263 without)
RECURSIVE Unwind(_, _, _)
Unwind(d, depth, pop_tab) ==
    IF d.stack # <<>> /\ depth < Top(d).content_depth
    THEN IF ListMismatch(d, Top(d)) THEN Raise(d, MismatchErr(d, Top(d)))
         ELSE LET d1 == [d EXCEPT !.stack = Pop(@)]
              IN  Unwind(IF pop_tab THEN pop_completed_tabular(d1) ELSE d1, depth, pop_tab)
    ELSE d

IsItemLine(content) == StartsWith(content, LIST_ITEM_PREFIX) \/ StartsWith(content, LIST_ITEM_MARKER)

\* the loop of Decoder.decode that closes completed list arrays (lines 156-177)
RECURSIVE CloseLists(_, _)
CloseLists(d, content) ==
    IF d.stack # <<>> /\ Top(d).kind = "array_list"
    THEN IF ArrLen(d, Top(d)) < Top(d).expected /\ ~IsItemLine(content) THEN Raise(d, MismatchErr(d, Top(d)))
         ELSE IF ArrLen(d, Top(d)) = Top(d).expected /\ ~IsItemLine(content)
         THEN CloseLists([d EXCEPT !.stack = Pop(@)], content)
         ELSE d
    ELSE d

\* root = the value parsed, unless parsing it raised
RootParsed(d, r) == IF r.err # NoErr THEN Raise(d, r.err) ELSE [d EXCEPT !.root = r.v]

\* Decoder.decode, the root line that starts with a bracket (lines 181-206)
RootArray(d, h, after, depth) ==
    IF h.err # NoErr THEN Raise(d, h.err)
    ELSE IF h.has_fields
    THEN [d EXCEPT !.root = Arr(<<>>), !.stack = <<ArrayCtx("array_tabular", depth, <<>>, h)>>]
    ELSE IF after # <<>> THEN RootParsed(d, parse_inline_array(h, after))
    ELSE [d EXCEPT !.root = Arr(<<>>), !.stack = <<ArrayCtx("array_list", depth, <<>>, h)>>]

\* Decoder.decode, the root line (lines 179-223)
RootLine(d, content, depth) ==
    IF content[1] = OPEN_BRACKET
    THEN LET hs == split_first_colon(content) IN RootArray(d, parse_header(hs[1]), hs[2], depth)
    ELSE IF looks_object_line(content)
    THEN parse_object_line_into(
             [d EXCEPT !.root = Obj(<<>>, <<>>),
                       !.stack = <<[Ctx("object", depth, <<>>) EXCEPT !.content_depth = depth]>>],
             content, depth)
    ELSE RootParsed(d, parse_primitive(content))

\* Decoder.decode, routing a line to the context on top, whose content depth is
\* the line's (lines 226-242, 265-275)
Route(d, content, depth) ==
    IF Top(d).kind = "object" THEN parse_object_line_into(d, content, depth)
    ELSE IF Top(d).kind = "array_list" THEN parse_list_item_into(d, content, depth)
    ELSE LET d1 == parse_tabular_row_into(d, content)
         IN  IF d1.err # NoErr THEN d1 ELSE pop_completed_tabular(d1)

\* _calc_depth_and_content dividing the leading spaces without testing the remainder
calc_depth_and_content_NoRemainderTest(line, indent) ==
    LET leading == count_leading_spaces(line)
        unit == IF indent > 1 THEN indent ELSE 1
    IN  IF leading = -1 THEN [err |-> Err("tab_in_indentation"), depth |-> 0, content |-> <<>>]
        ELSE [err |-> NoErr, depth |-> leading \div unit, content |-> From(line, leading + 1)]

\* Decoder._calc_depth_and_content: [err, depth, content]
calc_depth_and_content(line, indent) ==
    LET leading == count_leading_spaces(line)
        unit == IF indent > 1 THEN indent ELSE 1
    IN  IF leading = -1 THEN [err |-> Err("tab_in_indentation"), depth |-> 0, content |-> <<>>]
        ELSE IF leading % unit # 0 THEN [err |-> Err("invalid_indentation"), depth |-> 0, content |-> <<>>]
        ELSE [err |-> NoErr, depth |-> leading \div unit, content |-> From(line, leading + 1)]

\* Decoder._handle_blank_line
handle_blank_line(d) ==
    IF \E i \in 1..Len(d.stack) : d.stack[i].kind \in {"array_list", "array_tabular"}
    THEN LET i == CHOOSE j \in 1..Len(d.stack) :
                      /\ d.stack[j].kind \in {"array_list", "array_tabular"}
                      /\ \A k \in (j + 1)..Len(d.stack) : d.stack[k].kind = "object"
         IN  Raise(d, ErrCounts("blank_line_in_array", d.stack[i].expected, ArrLen(d, d.stack[i])))
    ELSE d

\* Decoder.decode, the second attempt at routing, after the dedent loop d4 is
\* the outcome of (lines 244-285)
RouteAgain(d4, content, depth) ==
    IF d4.err # NoErr THEN d4
    ELSE IF d4.stack # <<>> /\ depth = Top(d4).content_depth THEN Route(d4, content, depth)
    ELSE Raise(d4, Err("unexpected_content"))

\* a decoder that hands the line to the context on top whatever the line's depth
Dispatch_AnyDepth(d3, content, depth) ==
    IF d3.err # NoErr THEN d3
    ELSE IF d3.stack = <<>> THEN RootLine(d3, content, depth)
    ELSE Route(d3, content, depth)

\* Decoder.decode, the line handled at the root or routed to the context on top,
\* once the completed lists are closed (lines 179-285)
Dispatch(d3, content, depth) ==
    IF d3.err # NoErr THEN d3
    ELSE IF d3.stack = <<>> THEN RootLine(d3, content, depth)
    ELSE IF depth = Top(d3).content_depth THEN Route(d3, content, depth)
    ELSE RouteAgain(Unwind(d3, depth, FALSE), content, depth)

\* Decoder.decode, closing the completed lists after the dedent loop d2 is the
\* outcome of (lines 155-177)
Dedented(d2, content, depth) ==
    IF d2.err # NoErr THEN d2 ELSE Dispatch(CloseLists(d2, content), content, depth)

\* Decoder.decode, a line with content, its depth and content computed (lines 127-285)
ContentLine(d, dc) ==
    IF dc.err # NoErr THEN Raise(d, dc.err)
    ELSE Dedented(Unwind(pop_completed_tabular(d), dc.depth, TRUE), dc.content, dc.depth)

\* Decoder.decode, the body of the loop for one line (lines 121-285)
ProcessLine(d, raw, indent) ==
    IF Strip(raw) = <<>> THEN handle_blank_line(d)
    ELSE ContentLine(d, calc_depth_and_content(raw, indent))

\* Decoder.decode, after the loop (lines 287-309)
Finalize(d) ==
    LET d1 == pop_completed_tabular(d)
    IN  IF \E i \in 1..Len(d1.stack) : ListMismatch(d1, d1.stack[i])
        THEN LET i == CHOOSE j \in 1..Len(d1.stack) :
                          ListMismatch(d1, d1.stack[j]) /\ \A k \in 1..(j - 1) : ~ListMismatch(d1, d1.stack[k])
             IN  Raise(d1, MismatchErr(d1, d1.stack[i]))
        ELSE d1

\* Decoder._detect_indent_size: -1 when a tab is met in some line's indentation
detect_indent_size(ls) ==
    LET nonblank == {i \in 1..Len(ls) : Strip(ls[i]) # <<>>}
        indents == {count_leading_spaces(ls[i]) : i \in nonblank} \ {0, -1}
    IN  IF \E i \in nonblank : count_leading_spaces(ls[i]) = -1 THEN -1
        ELSE IF indents = {} THEN 2
        ELSE CHOOSE m \in indents : \A n \in indents : m <= n

\* str.splitlines
RECURSIVE SplitLinesFrom(_, _, _, _)
SplitLinesFrom(s, i, buf, out) ==
    IF i > Len(s) THEN (IF buf = <<>> THEN out ELSE Append(out, buf))
    ELSE IF s[i] = CARRIAGE_RETURN /\ i < Len(s) /\ s[i + 1] = NEWLINE
    THEN SplitLinesFrom(s, i + 2, <<>>, Append(out, buf))
    ELSE IF s[i] \in LineBreaks THEN SplitLinesFrom(s, i + 1, <<>>, Append(out, buf))
    ELSE SplitLinesFrom(s, i + 1, Append(buf, s[i]), out)

splitlines(s) == SplitLinesFrom(s, 1, <<>>, <<>>)

---------------------------------------------------------------------------
(* The inputs of the calls *)

\* the longest array and the longest row of keys the value families build
MaxLen == 2

\* the integers of the value families are 1..MaxInt
MaxInt == 2

DefaultOptions == [indent |-> 2, delimiter |-> DEFAULT_DELIMITER, length_marker |-> FALSE]

\* encode's options: the three delimiters, both length_marker settings, indent 2 and 0
AllOptions == [indent : {2, 0}, delimiter : DELIMITERS, length_marker : BOOLEAN]

SeqsUpTo(S, n) == UNION {[1..k -> S] : k \in 0..n}

\* sequences of distinct elements of S, up to length n
DistinctSeqs(S, n) == {q \in SeqsUpTo(S, n) : \A i, j \in 1..Len(q) : i # j => q[i] # q[j]}

Ints == {Int_(n) : n \in 1..MaxInt}

\* scalars used inside the composite families
CoreScalars == {Int_(1), Str(<<"a">>)}

\* scalars tried at the root and as single values
WideScalars ==
    Ints \cup {Null, Bool(TRUE), Bool(FALSE), Int_(0), Int_(-1), Int_(10),
               Str(<<>>), Str(<<"a">>), Str(<<"a", " ", "b">>), Str(<<" ", "a">>), Str(TRUE_LITERAL), Str(NULL_LITERAL),
               Str(<<"4", "2">>), Str(<<"-", "3", ".", "1", "4">>), Str(<<"0", "5">>), Str(<<"1", "e", "5">>),
               Str(<<"a", ",", "b">>), Str(<<"a", "|", "b">>), Str(<<"a", TAB, "b">>), Str(<<"a", ":", "b">>),
               Str(<<"a", ":", " ", "b">>), Str(<<"-", " ", "a">>), Str(<<"-">>), Str(<<"[", "1", "]", ":">>),
               Str(<<"{", "a", "}">>), Str(<<DOUBLE_QUOTE>>), Str(<<BACKSLASH, "n">>), Str(<<"a", NEWLINE, "b">>),
               Str(<<"a", "\f", "b">>), Str(<<"a", "#">>)}

Keys == {<<"a">>, <<"b">>}

\* keys that need care: empty, or holding a structural character or a quote
TrickyKeys ==
    {<<>>, <<"a", ":">>, <<"a", "[">>, <<"a", "]">>, <<"[", "1", "]">>, <<"{">>, <<"a", "}">>, <<DOUBLE_QUOTE>>,
     <<"a", " ", "b">>, <<"a", ",", "b">>, <<"-">>, <<"1">>, <<"a", TAB>>, <<BACKSLASH>>}

PrimArrays(S) == {Arr(q) : q \in SeqsUpTo(S, MaxLen)}

\* objects over the keys ks (each order of each subset) with values in S
ObjectsOver(ks, S) ==
    UNION {{Obj(kq, vq) : vq \in [1..Len(kq) -> S]} : kq \in DistinctSeqs(ks, MaxLen)}

FlatObjects == ObjectsOver(Keys, CoreScalars)

\* the values one level deep
Level1 == CoreScalars \cup PrimArrays(CoreScalars) \cup FlatObjects

ArraysOf(S) == {Arr(<<x>>) : x \in S} \cup {Arr(<<x, y>>) : x \in S, y \in S}

\* the values two levels deep: arrays of (and objects over) the values one level deep
Level2 == ArraysOf(Level1) \cup ObjectsOver(Keys, Level1 \ CoreScalars)

\* objects whose first field is an array that is not inline, followed by a scalar field
FirstFieldArrays ==
    {Arr(<<Obj(<<<<"a">>>>, <<Int_(1)>>), Obj(<<<<"a">>>>, <<Int_(2)>>)>>),
     Arr(<<Obj(<<<<"a">>>>, <<Int_(1)>>), Obj(<<<<"b">>>>, <<Int_(2)>>)>>),
     Arr(<<Int_(1), Obj(<<>>, <<>>)>>),
     Arr(<<Arr(<<Int_(1)>>), Int_(2)>>),
     Arr(<<Obj(<<<<"a">>>>, <<Int_(1)>>)>>)}

\* list-format arrays of objects whose first field is an array or an object
ListItemValues ==
    {Arr(<<Obj(<<<<"a">>, <<"b">>>>, <<x, Int_(1)>>)>>) : x \in FirstFieldArrays \cup (FlatObjects \ {Obj(<<>>, <<>>)})}
      \cup {Obj(<<<<"k">>>>, <<Arr(<<Obj(<<<<"a">>, <<"b">>>>, <<x, Int_(1)>>), Int_(2)>>)>>) : x \in FirstFieldArrays}

\* arrays nested three levels deep, alone and beside supported elements
DeepArrays ==
    {Arr(<<Arr(<<Arr(<<Int_(1)>>)>>)>>),
     Arr(<<Arr(<<Int_(1)>>), Arr(<<Arr(<<Int_(2)>>)>>)>>),
     Obj(<<<<"a">>>>, <<Arr(<<Arr(<<Arr(<<Int_(1)>>)>>)>>)>>),
     Arr(<<Arr(<<Obj(<<<<"a">>>>, <<Int_(1)>>)>>), Int_(1)>>),
     Arr(<<Obj(<<<<"a">>>>, <<Obj(<<<<"b">>>>, <<Arr(<<Arr(<<Int_(1)>>), Arr(<<Int_(2)>>)>>)>>)>>)>>)}

\* one entry k: v for each tricky key and each value shape
ValueShapes ==
    {Int_(1), Obj(<<<<"b">>>>, <<Int_(1)>>), Arr(<<Int_(1), Int_(2)>>), Arr(<<Int_(1), Arr(<<Int_(2)>>)>>),
     Arr(<<Obj(<<<<"b">>>>, <<Int_(1)>>), Obj(<<<<"b">>>>, <<Int_(2)>>)>>)}

KeyedValues == {Obj(<<k>>, <<v>>) : k \in TrickyKeys \cup Keys, v \in ValueShapes}

\* tabular arrays whose rows and field names hold tricky scalars and keys
TabularValues ==
    {Arr(<<Obj(<<<<"a">>, k>>, <<Int_(1), x>>), Obj(<<k, <<"a">>>>, <<y, Int_(2)>>)>>) :
        k \in {<<"b">>, <<"a", ",", "b">>, <<"{">>}, x \in {Int_(1), Str(<<"a", ",", "b">>), Str(<<>>)}, y \in {Null, Str(<<"a", "|", "b">>)}}

\* values with a tab in a string, in an object key and in a tabular field name
TabValues ==
    {Obj(<<<<"a", TAB>>>>, <<Str(<<"a", TAB, "b">>)>>),
     Obj(<<<<"t">>>>, <<Arr(<<Str(<<"a", TAB, "b">>), Str(<<"c">>)>>)>>),
     Arr(<<Obj(<<<<"a", TAB>>, <<"b">>>>, <<Int_(1), Str(<<TAB>>)>>),
           Obj(<<<<"a", TAB>>, <<"b">>>>, <<Int_(2), Str(<<"a">>)>>)>>)}

\* the values tried with every option combination
CoreValues == WideScalars \cup Level1 \cup ListItemValues \cup DeepArrays \cup TabularValues \cup TabValues

\* values with a form feed in a nested string, in a key and in a tabular row
LineBreakValues ==
    {Obj(<<<<"k">>>>, <<Obj(<<<<"j">>>>, <<Str(<<"x", "\f", " ", "b">>)>>)>>),
     Obj(<<<<"a", "\f", "b">>>>, <<Int_(1)>>),
     Arr(<<Obj(<<<<"a">>, <<"b">>>>, <<Int_(1), Str(<<"x", "\f", "y">>)>>),
           Obj(<<<<"a">>, <<"b">>>>, <<Int_(2), Str(<<"z">>)>>)>>)}

\* the values tried with the default options only
WideValues == Level2 \cup KeyedValues \cup LineBreakValues

\* the values whose encoded text is also decoded after one edit
TamperValues == Level1 \cup ArraysOf(Level1) \cup ListItemValues \cup TabularValues

EncodeInputs ==
    {[kind |-> "value", v |-> v, o |-> o] : v \in CoreValues, o \in AllOptions}
      \cup {[kind |-> "value", v |-> v, o |-> DefaultOptions] : v \in WideValues}

\* documents written by hand: headers whose counts disagree with what follows,
\* blank lines in and after arrays, rows and items at several depths
Docs ==
    {Join(<<NEWLINE>>, ls) : ls \in
       {<< <<"x","[","2","]",":">>, <<" "," ","-"," ","a">>, <<"y",":"," ","1">> >>,
        << <<"x","[","1","]",":">>, <<" "," ","-"," ","a">>, <<" "," ","-"," ","b">>, <<"y",":"," ","1">> >>,
        << <<"x","[","1","]",":">>, <<" "," ","-"," ","a">>, <<" "," ","-"," ","b">>, <<" "," ","y",":"," ","1">> >>,
        << <<"x","[","3","]",":">>, <<" "," ","-"," ","a">>, <<" "," ","-"," ","b">>, <<" "," ","y",":"," ","1">> >>,
        << <<"x","[","2","]",":">>, <<" "," ","-"," ","a">>, <<" "," ","-"," ","b">>, <<>>, <<"y",":"," ","1">> >>,
        << <<"x","[","2","]",":">>, <<" "," ","-"," ","a">>, <<>>, <<" "," ","-"," ","b">> >>,
        << <<"x","[","2","]",":">>, <<" "," ","-"," ","a">>, <<" "," ","-"," ","b">>, <<" "," ","-"," ","c">> >>,
        << <<"[","2","]",":">>, <<" "," ","-"," ","a">> >>,
        << <<"x","[","3","]",":">>, <<" "," ","-"," ","a">>, <<" "," ","-"," ","b">> >>,
        << <<"x","[","1","]",":">>, <<" "," ","-"," ","a">>, <<" "," ","-"," ","b">>, <<"y",":"," ","1">>, <<"z",":"," ","2">> >>,
        << <<"[","1","]",":">>, <<" "," ","-"," ","a">>, <<" "," ","-"," ","b">> >>,
        << <<"o",":">>, <<" "," ","x","[","2","]",":">>, <<" "," "," "," ","-"," ","a">>, <<"y",":"," ","1">> >>,
        << <<"o",":">>, <<" "," ","x","[","1","]",":">>, <<" "," "," "," ","-"," ","a">>, <<" "," "," "," ","-"," ","b">>, <<"y",":"," ","1">> >>,
        << <<"[","1","]",":">>, <<" "," ","-"," ","k","[","1","]",":">>, <<" "," "," "," ","-"," ","a">>, <<" "," "," "," ","-"," ","b">>, <<" "," "," "," ","c",":"," ","1">> >>,
        << <<"[","1","]",":">>, <<" "," ","-"," ","k","[","2","]",":">>, <<" "," "," "," ","-"," ","a">>, <<" "," "," "," ","-"," ","b">>, <<" "," "," "," ","c",":"," ","1">> >>,
        << <<"x","[","3","]","{","a","}",":">>, <<" "," ","1">>, <<" "," ","2">> >>,
        << <<"x","[","3","]","{","a","}",":">>, <<" "," ","1">>, <<" "," ","2">>, <<"y",":"," ","1">> >>,
        << <<"x","[","2","]","{","a","}",":">>, <<" "," ","1">>, <<" "," ","2">>, <<" "," ","3">> >>,
        << <<"x","[","2","]","{","a","}",":">>, <<" "," ","1">>, <<" "," ","2">>, <<>>, <<"y",":"," ","1">> >>,
        << <<"x","[","2","]","{","a","}",":">>, <<" "," ","1">>, <<>>, <<" "," ","2">> >>,
        << <<"[","2","]","{","a","}",":">>, <<" "," ","1">>, <<" "," ","2">>, <<" "," ","3">> >>,
        << <<"[","2","]","{","a","}",":">>, <<" "," ","1">> >>,
        << <<"a",":"," ","1">>, <<>>, <<"b",":"," ","2">> >>,
        << <<"o",":">>, <<" "," ","a",":"," ","1">>, <<>>, <<" "," ","b",":"," ","2">> >>,
        << <<"a",":"," ","1">>, <<" "," "," ","b",":"," ","2">> >>,
        << <<"a",":"," ","1">>, <<TAB,"b",":"," ","2">> >>,
        << <<"x","[","2","]",":"," ","1",",","2">>, <<>>, <<"y",":"," ","1">> >>,
        << <<"x","[","3","]",":"," ","1",",","2">> >>,
        << <<>>, <<" ">> >>,
        << <<"a",":">>, <<" "," ","b",":">>, <<" "," "," ","c",":"," ","1">> >>,
        << <<"a",":">>, <<" "," "," ","b",":"," ","1">>, <<" "," ","c",":"," ","2">> >>,
        << <<"a",":">>, <<" "," "," "," ","b",":">>, <<" "," "," "," "," "," ","c",":"," ","1">> >>,
        << <<"a",":">>, <<" "," "," ","b",":">>, <<" "," "," "," "," "," ","c",":"," ","1">> >>,
        << <<"a",":">>, <<" "," ",TAB,"b",":"," ","1">> >>,
        << <<TAB,"a",":"," ","1">> >>,
        << <<"a",":"," ","1">>, <<TAB>>, <<"b",":"," ","2">> >>,
        << <<"a",":">>, <<" "," ","b",":"," ","1">>, <<" ",TAB," ">>, <<" "," ","c",":"," ","2">> >>,
        << <<"a",":"," ","1">>, <<" "," "," ">>, <<"b",":"," ","2">> >>}}

\* the longest unquoted token built from NumeralAlphabet
MaxTokenLen == 3

NumeralAlphabet == {"0", "1", "-", ".", "e"}

\* unquoted tokens: numerals, numerals with leading zeros, and near misses
NumeralTokens ==
    (SeqsUpTo(NumeralAlphabet, MaxTokenLen) \ {<<>>})
    \cup {<<"0", "1", "2", "3">>, <<"0", "0", "7">>, <<"-", "0", "1", "2", "3">>, <<"0", "0", ".", "5">>,
          <<"0", "1", "e", "5">>, <<"0", "1", "E", "5">>, <<"1", "0", "0">>, <<"-", "0", "0", "0", "0">>}

\* documents with an unquoted token as an object's value, and with a token
\* with leading zeros as the root, in an inline array, as a list item and as
\* a cell of a tabular row
NumeralDocs ==
    {<<"a", ":", " ">> \o tok : tok \in NumeralTokens}
    \cup {<<"0", "0", "7">>,
          <<"[", "2", "]", ":", " ", "0", "0", "7", ",", "-", "0", "0">>,
          <<"[", "1", "]", ":", NEWLINE, " ", " ", "-", " ", "0", "1", "2", "3">>,
          <<"x", "[", "1", "]", "{", "a", "}", ":", NEWLINE, " ", " ", "0", "0">>}

\* the shapes of an array with a header: inline values and tabular rows, under
\* a key and at the root, and list items
HeaderShapes == {"inline", "root_inline", "tabular", "root_tabular", "list"}

\* a header is written with or without "#", with no delimiter marker or with
\* "|" or a tab, declares one or two elements, and the text under it is
\* joined with sep
HeaderCases ==
    [shape : HeaderShapes, hash : BOOLEAN, mark : {<<>>, <<PIPE>>, <<TAB>>}, sep : DELIMITERS, n : {1, 2}]

HeaderBlock(c) ==
    <<OPEN_BRACKET>> \o (IF c.hash THEN <<"#">> ELSE <<>>) \o IntStr(c.n) \o c.mark \o <<CLOSE_BRACKET>>

HeaderDoc(c) ==
    LET key == IF c.shape \in {"root_inline", "root_tabular"} THEN <<>> ELSE <<"x">>
    IN  IF c.shape \in {"inline", "root_inline"}
        THEN key \o HeaderBlock(c) \o <<":", " ", "a", c.sep, "b">>
        ELSE IF c.shape \in {"tabular", "root_tabular"}
        THEN Join(<<NEWLINE>>,
                  <<key \o HeaderBlock(c) \o <<OPEN_BRACE, "a", c.sep, "b", CLOSE_BRACE, ":">>,
                    <<" ", " ", "1", c.sep, "2">>>>
                  \o (IF c.n = 2 THEN << <<" ", " ", "1", c.sep, "2">> >> ELSE <<>>))
        ELSE Join(<<NEWLINE>>,
                  <<key \o HeaderBlock(c) \o <<":">>, <<" ", " ", "-", " ", "a", c.sep, "b">>>>
                  \o (IF c.n = 2 THEN << <<" ", " ", "-", " ", "[", "1"  >> \o c.mark \o <<"]", ":", " ", "c">> >> ELSE <<>>))

HeaderDocs == {HeaderDoc(c) : c \in HeaderCases}

\* documents with a line after a root scalar or a root array that is complete
AfterRootDocs ==
    {Join(<<NEWLINE>>, ls) : ls \in
       {<< <<"1">>, <<"2">> >>,
        << <<"x">>, <<>>, <<"y">> >>,
        << <<"1">>, <<" ", " ", "2">> >>,
        << <<"[", "2", "]", ":", " ", "1", ",", "2">>, <<"f", "o", "o">> >>,
        << <<"[", "2", "]", ":", " ", "1", ",", "2">>, <<"a", ":", " ", "1">> >>,
        << <<"[", "1", "]", ":">>, <<" ", " ", "-", " ", "a">>, <<"b">> >>,
        << <<"[", "1", "]", ":">>, <<" ", " ", "-", " ", "a">>, <<"[", "1", "]", ":", " ", "x">> >>,
        << <<"[", "1", "]", "{", "a", "}", ":">>, <<" ", " ", "1">>, <<"b", ":", " ", "2">> >>,
        << <<"a", ":", " ", "1">>, <<"f", "o", "o">> >>,
        << <<"a", ":", " ", "1">>, <<"[", "1", "]", ":", " ", "2">> >>}}

\* the texts of the decode runs
DecodeDocs == Docs \cup NumeralDocs \cup HeaderDocs \cup AfterRootDocs

\* a caller's edits of an encoded text, one line at a time
DropLine(ls, i) == SubSeq(ls, 1, i - 1) \o SubSeq(ls, i + 1, Len(ls))

DupLine(ls, i) == SubSeq(ls, 1, i) \o SubSeq(ls, i, Len(ls))

BlankBefore(ls, i) == SubSeq(ls, 1, i - 1) \o << <<>> >> \o SubSeq(ls, i, Len(ls))

BlankAfter(ls, i) == SubSeq(ls, 1, i) \o << <<>> >> \o SubSeq(ls, i + 1, Len(ls))

Edits(ls) ==
    UNION {{DropLine(ls, i), DupLine(ls, i), BlankBefore(ls, i), BlankAfter(ls, i)} : i \in 1..Len(ls)}

---------------------------------------------------------------------------
(* The calls: encode(value, options), then decode(text) line by line *)

Init ==
    /\ \/ input \in EncodeInputs /\ pc = "call_encode" /\ text = <<>>
       \/ \E doc \in DecodeDocs : input = [kind |-> "text", doc |-> doc] /\ pc = "call_decode" /\ text = doc
    /\ tampered = FALSE
    /\ lines = <<>>
    /\ indent_size = 0
    /\ line_num = 0
    /\ stack = <<>>
    /\ root = Null
    /\ err = NoErr
    /\ warnings = <<>>
    /\ default_encoder = Null
    /\ default_decoder = Null
    /\ calls = <<>>

\* encode(value, options): Encoder.encode
Encode ==
    /\ pc = "call_encode"
    /\ text' = encode_value(input.o, input.v)
    /\ warnings' = encode_warnings(input.v)
    /\ pc' = "call_decode"
    /\ UNCHANGED <<input, tampered, lines, indent_size, line_num, stack, root, err>>
    /\ UNCHANGED api

\* the caller hands decode an edited copy of the encoded text
Tamper ==
    /\ pc = "call_decode"
    /\ input.kind = "value"
    /\ input.o = DefaultOptions
    /\ input.v \in TamperValues
    /\ ~tampered
    /\ \E ls \in Edits(splitlines(text)) : text' = Join(<<NEWLINE>>, ls)
    /\ tampered' = TRUE
    /\ UNCHANGED <<input, pc, lines, indent_size, line_num, stack, root, err>>
    /\ UNCHANGED <<warnings, default_encoder, default_decoder, calls>>

\* Decoder.decode up to the loop: empty input, the lines, the indent size
DecodeStart ==
    /\ pc = "call_decode"
    /\ LET t == RStripNewlines(text)
           ls == splitlines(t)
       IN  IF Strip(t) = <<>>
           THEN /\ root' = Obj(<<>>, <<>>)
                /\ pc' = "done"
                /\ UNCHANGED <<lines, indent_size, err>>
           ELSE /\ lines' = ls
                /\ indent_size' = detect_indent_size(ls)
                /\ IF detect_indent_size(ls) = -1
                   THEN pc' = "error" /\ err' = Err("tab_in_indentation")
                   ELSE pc' = "lines" /\ err' = NoErr
                /\ root' = Null
    /\ UNCHANGED <<input, text, tampered, line_num, stack>>
    /\ UNCHANGED <<warnings, default_encoder, default_decoder, calls>>

\* the decoder state the line operators work on
D == [stack |-> stack, root |-> root, err |-> err]

Step(d) ==
    /\ stack' = d.stack
    /\ root' = d.root
    /\ err' = d.err
    /\ pc' = IF d.err # NoErr THEN "error" ELSE pc

\* Decoder.decode, one turn of the loop on a blank line
DecodeBlankLine ==
    /\ pc = "lines"
    /\ line_num < Len(lines)
    /\ Strip(lines[line_num + 1]) = <<>>
    /\ line_num' = line_num + 1
    /\ Step(ProcessLine(D, lines[line_num + 1], indent_size))
    /\ UNCHANGED <<input, text, tampered, lines, indent_size>>
    /\ UNCHANGED <<warnings, default_encoder, default_decoder, calls>>

\* Decoder.decode, one turn of the loop on a line with content
DecodeLine ==
    /\ pc = "lines"
    /\ line_num < Len(lines)
    /\ Strip(lines[line_num + 1]) # <<>>
    /\ line_num' = line_num + 1
    /\ Step(ProcessLine(D, lines[line_num + 1], indent_size))
    /\ UNCHANGED <<input, text, tampered, lines, indent_size>>
    /\ UNCHANGED <<warnings, default_encoder, default_decoder, calls>>

\* Decoder.decode after the loop: the final length checks, then return root
DecodeEnd ==
    /\ pc = "lines"
    /\ line_num = Len(lines)
    /\ LET d == Finalize(D)
       IN  /\ stack' = d.stack
           /\ root' = d.root
           /\ err' = d.err
           /\ pc' = IF d.err # NoErr THEN "error" ELSE "done"
    /\ UNCHANGED <<input, text, tampered, lines, indent_size, line_num>>
    /\ UNCHANGED <<warnings, default_encoder, default_decoder, calls>>

Next == Encode \/ Tamper \/ DecodeStart \/ DecodeBlankLine \/ DecodeLine \/ DecodeEnd

Spec == Init /\ [][Next]_vars

---------------------------------------------------------------------------
(* Scalars alone: encode_primitive on a string, then Decoder._parse_primitive *)

\* the longest string built from ScalarAlphabet
MaxStrLen == 3

ScalarAlphabet == {"a", "e", "0", "1", "-", ".", " ", COMMA, TAB, COLON, DOUBLE_QUOTE, BACKSLASH}

\* strings longer than MaxStrLen, or over other characters, that need care
ScalarExtras ==
    {TRUE_LITERAL, FALSE_LITERAL, NULL_LITERAL, <<"T", "r", "u", "e">>,
     <<"4", "2">>, <<"-", "3", ".", "1", "4">>, <<"1", "e", "+", "5">>, <<"1", "E", "5">>, <<"0", "0", "7">>, <<"+", "5">>, <<"1", ".">>, <<".", "5">>,
     <<"a", PIPE, "b">>, <<PIPE>>, <<"[", "1", "]">>, <<"{", "a", "}">>, <<"]">>, <<"}">>, <<"#", "1">>,
     <<"a", NEWLINE, "b">>, <<CARRIAGE_RETURN>>, <<"a", "\f", "b">>, <<"\f">>, <<"-", " ", "a">>,
     <<BACKSLASH, "n">>, <<BACKSLASH, DOUBLE_QUOTE>>, <<DOUBLE_QUOTE, "a", DOUBLE_QUOTE>>, <<"a", BACKSLASH>>}

ScalarStrings == SeqsUpTo(ScalarAlphabet, MaxStrLen) \cup ScalarExtras

InitScalar ==
    /\ \E s \in ScalarStrings, dl \in DELIMITERS : input = [kind |-> "scalar", s |-> s, delimiter |-> dl]
    /\ pc = "call_encode_primitive"
    /\ text = <<>>
    /\ tampered = FALSE
    /\ lines = <<>>
    /\ indent_size = 0
    /\ line_num = 0
    /\ stack = <<>>
    /\ root = Null
    /\ err = NoErr
    /\ warnings = <<>>
    /\ default_encoder = Null
    /\ default_decoder = Null
    /\ calls = <<>>

\* encode_primitive on the string
EncodeScalar ==
    /\ pc = "call_encode_primitive"
    /\ text' = encode_primitive(Str(input.s), input.delimiter)
    /\ pc' = "call_parse_primitive"
    /\ UNCHANGED <<input, tampered, lines, indent_size, line_num, stack, root, err>>
    /\ UNCHANGED <<warnings, default_encoder, default_decoder, calls>>

\* Decoder._parse_primitive on the text
ParseScalar ==
    /\ pc = "call_parse_primitive"
    /\ LET r == parse_primitive(text)
       IN  /\ err' = r.err
           /\ root' = r.v
           /\ pc' = IF r.err # NoErr THEN "error" ELSE "done"
    /\ UNCHANGED <<input, text, tampered, lines, indent_size, line_num, stack>>
    /\ UNCHANGED <<warnings, default_encoder, default_decoder, calls>>

NextScalar == EncodeScalar \/ ParseScalar

SpecScalar == InitScalar /\ [][NextScalar]_vars

---------------------------------------------------------------------------
(* normalize.py: normalize_value, over host values.  A host value is a
   canonical value or one of
     [t |-> "long", neg, digits]   an int beyond the integers of the model,
     [t |-> "float", s]            with s also "nan", "inf", "-inf", "-0.0",
     [t |-> "datetime", iso]       a datetime and its isoformat(),
     [t |-> "set", items]          a set of ints,
     [t |-> "dict", keys, vals]    a dict whose keys are host values,
     [t |-> "ref", up]             the up-th container around this place:
                                   an edge that closes a cycle of the graph,
     [t |-> "module"], [t |-> "type"], [t |-> "function"], [t |-> "method"],
     [t |-> "builtin"], [t |-> "other", type]   any other object. *)

\* the interpreter's recursion limit, counted in nested normalize_value calls
RecursionLimit == 6

\* the limit one too high: 2**53
MAX_SAFE_INTEGER_2Pow53 == <<"9", "0", "0", "7", "1", "9", "9", "2", "5", "4", "7", "4", "0", "9", "9", "2">>

\* _MAX_SAFE_INTEGER = 2**53 - 1, by its decimal digits
MAX_SAFE_INTEGER == <<"9", "0", "0", "7", "1", "9", "9", "2", "5", "4", "7", "4", "0", "9", "9", "1">>

\* normalize_value with repr(k) in place of str(k) for the str keys of a mapping
RECURSIVE normalize_value_ReprKeys(_, _, _)
normalize_value_ReprKeys(value, outer, depth) ==
    LET Ok(v) == [err |-> NoErr, v |-> v]
        Each(items) == [i \in 1..Len(items) |-> normalize_value_ReprKeys(items[i], <<value>> \o outer, depth + 1)]
        List(rs) == IF FirstErr(rs) # NoErr THEN [err |-> FirstErr(rs), v |-> Null]
                    ELSE Ok(Arr([i \in 1..Len(rs) |-> rs[i].v]))
        \* abs(value) > _MAX_SAFE_INTEGER, on the digits
        Magnitude(x) == IF x.t = "long" THEN x.digits ELSE NatStr(IF x.n < 0 THEN -x.n ELSE x.n)
        Greater(a, b) == \/ Len(a) > Len(b)
                         \/ /\ Len(a) = Len(b)
                            /\ \E i \in 1..Len(a) : DigitVal(a[i]) > DigitVal(b[i]) /\ \A j \in 1..(i - 1) : a[j] = b[j]
        \* str(x) of an int or of a dict key
        StrOf(x) == CASE x.t = "str" -> x.s
                      [] x.t = "int" -> IntStr(x.n)
                      [] x.t = "long" -> (IF x.neg THEN <<"-">> ELSE <<>>) \o x.digits
                      [] x.t = "bool" -> (IF x.b THEN <<"T", "r", "u", "e">> ELSE <<"F", "a", "l", "s", "e">>)
                      [] OTHER -> <<"N", "o", "n", "e">>
        \* sorted(value) of a set of ints
        Sorted(S) == CHOOSE s \in [1..Cardinality(S) -> S] : \A i, j \in 1..Cardinality(S) : i < j => s[i].n < s[j].n
        \* {str(k): normalize_value_ReprKeys(v) for k, v in value.items()}
        KeyAt(i) == IF value.t = "obj" THEN <<"'">> \o value.keys[i] \o <<"'">> ELSE StrOf(value.keys[i])
        RECURSIVE Mapping(_, _, _)
        Mapping(rs, i, acc) == IF i > Len(rs) THEN acc ELSE Mapping(rs, i + 1, ObjSet(acc, KeyAt(i), rs[i].v))
        Entries(rs) == IF FirstErr(rs) # NoErr THEN [err |-> FirstErr(rs), v |-> Null]
                    ELSE Ok(Mapping(rs, 1, Obj(<<>>, <<>>)))
    IN  IF depth > RecursionLimit THEN [err |-> Err("RecursionError"), v |-> Null]
        ELSE CASE value.t \in {"null", "bool", "str"} -> Ok(value)
               [] value.t \in {"int", "long"} ->
                    IF Greater(Magnitude(value), MAX_SAFE_INTEGER) THEN Ok(Str(StrOf(value))) ELSE Ok(value)
               [] value.t = "float" ->
                    IF value.s \in {<<"n", "a", "n">>, <<"i", "n", "f">>, <<"-", "i", "n", "f">>} THEN Ok(Null)
                    ELSE IF value.s = <<"-", "0", ".", "0">> THEN Ok(Int_(0))
                    ELSE Ok(value)
               [] value.t = "datetime" -> Ok(Str(value.iso))
               [] value.t = "arr" -> IF value.items = <<>> THEN Ok(Arr(<<>>)) ELSE List(Each(value.items))
               [] value.t = "set" -> List(Each(Sorted(value.items)))
               [] value.t \in {"obj", "dict"} -> Entries(Each(value.vals))
               [] value.t = "ref" ->
                    normalize_value_ReprKeys(outer[value.up], SubSeq(outer, value.up + 1, Len(outer)), depth)
               [] OTHER -> Ok(Null)

\* normalize_value(value), with the containers around value (outer) and the
\* number of calls in progress (depth); [err, v], err the RecursionError or NoErr
RECURSIVE normalize_value(_, _, _)
normalize_value(value, outer, depth) ==
    LET Ok(v) == [err |-> NoErr, v |-> v]
        Each(items) == [i \in 1..Len(items) |-> normalize_value(items[i], <<value>> \o outer, depth + 1)]
        List(rs) == IF FirstErr(rs) # NoErr THEN [err |-> FirstErr(rs), v |-> Null]
                    ELSE Ok(Arr([i \in 1..Len(rs) |-> rs[i].v]))
        \* abs(value) > _MAX_SAFE_INTEGER, on the digits
        Magnitude(x) == IF x.t = "long" THEN x.digits ELSE NatStr(IF x.n < 0 THEN -x.n ELSE x.n)
        Greater(a, b) == \/ Len(a) > Len(b)
                         \/ /\ Len(a) = Len(b)
                            /\ \E i \in 1..Len(a) : DigitVal(a[i]) > DigitVal(b[i]) /\ \A j \in 1..(i - 1) : a[j] = b[j]
        \* str(x) of an int or of a dict key
        StrOf(x) == CASE x.t = "str" -> x.s
                      [] x.t = "int" -> IntStr(x.n)
                      [] x.t = "long" -> (IF x.neg THEN <<"-">> ELSE <<>>) \o x.digits
                      [] x.t = "bool" -> (IF x.b THEN <<"T", "r", "u", "e">> ELSE <<"F", "a", "l", "s", "e">>)
                      [] OTHER -> <<"N", "o", "n", "e">>
        \* sorted(value) of a set of ints
        Sorted(S) == CHOOSE s \in [1..Cardinality(S) -> S] : \A i, j \in 1..Cardinality(S) : i < j => s[i].n < s[j].n
        \* {str(k): normalize_value(v) for k, v in value.items()}
        KeyAt(i) == IF value.t = "obj" THEN value.keys[i] ELSE StrOf(value.keys[i])
        RECURSIVE Mapping(_, _, _)
        Mapping(rs, i, acc) == IF i > Len(rs) THEN acc ELSE Mapping(rs, i + 1, ObjSet(acc, KeyAt(i), rs[i].v))
        Entries(rs) == IF FirstErr(rs) # NoErr THEN [err |-> FirstErr(rs), v |-> Null]
                    ELSE Ok(Mapping(rs, 1, Obj(<<>>, <<>>)))
    IN  IF depth > RecursionLimit THEN [err |-> Err("RecursionError"), v |-> Null]
        ELSE CASE value.t \in {"null", "bool", "str"} -> Ok(value)
               [] value.t \in {"int", "long"} ->
                    IF Greater(Magnitude(value), MAX_SAFE_INTEGER) THEN Ok(Str(StrOf(value))) ELSE Ok(value)
               [] value.t = "float" ->
                    IF value.s \in {<<"n", "a", "n">>, <<"i", "n", "f">>, <<"-", "i", "n", "f">>} THEN Ok(Null)
                    ELSE IF value.s = <<"-", "0", ".", "0">> THEN Ok(Int_(0))
                    ELSE Ok(value)
               [] value.t = "datetime" -> Ok(Str(value.iso))
               [] value.t = "arr" -> IF value.items = <<>> THEN Ok(Arr(<<>>)) ELSE List(Each(value.items))
               [] value.t = "set" -> List(Each(Sorted(value.items)))
               [] value.t \in {"obj", "dict"} -> Entries(Each(value.vals))
               [] value.t = "ref" ->
                    normalize_value(outer[value.up], SubSeq(outer, value.up + 1, Len(outer)), depth)
               [] OTHER -> Ok(Null)

---------------------------------------------------------------------------
(* ptoon/__init__.py: encode(input, options), decode(input, options) and the
   cached default instances.  A frame of calls is
     [op, input, options, pc, opts, self, normalized, result, exc];
   an exception is [type, msg], msg the fixed text followed by the parts the
   code interpolates. *)

NoExc == [type |-> "none", msg |-> <<>>]

Unset == [t |-> "unset"]

\* the input checks of encode() and of Encoder.encode
InputError(value) ==
    CASE value.t = "module" -> [type |-> "TypeError", msg |-> <<"Cannot encode", "module">>]
      [] value.t = "type" -> [type |-> "TypeError", msg |-> <<"Cannot encode", "type">>]
      [] value.t = "function" -> [type |-> "TypeError", msg |-> <<"Cannot encode", "function">>]
      [] value.t = "method" -> [type |-> "TypeError", msg |-> <<"Cannot encode", "method">>]
      [] value.t = "builtin" -> [type |-> "TypeError", msg |-> <<"Cannot encode", "builtin_function_or_method">>]
      [] OTHER -> NoExc

\* encode(): the checks of options, and the options extracted; [exc, opts]
OptionsError(options) ==
    LET is_dict == options.t \in {"obj", "dict"}
        n == IF is_dict THEN Len(options.keys) ELSE 0
        KeyAt(i) == IF options.t = "obj" THEN Str(options.keys[i]) ELSE options.keys[i]
        valid_keys == {Str(<<"i", "n", "d", "e", "n", "t">>), Str(<<"d", "e", "l", "i", "m", "i", "t", "e", "r">>),
                       Str(<<"l", "e", "n", "g", "t", "h", "_", "m", "a", "r", "k", "e", "r">>)}
        Has(k) == \E i \in 1..n : KeyAt(i) = Str(k)
        Get(k, default) == IF Has(k) THEN options.vals[CHOOSE i \in 1..n : KeyAt(i) = Str(k)] ELSE default
        indent_val == Get(<<"i", "n", "d", "e", "n", "t">>, Int_(2))
        delimiter == Get(<<"d", "e", "l", "i", "m", "i", "t", "e", "r">>, Str(<<DEFAULT_DELIMITER>>))
        length_marker_val == Get(<<"l", "e", "n", "g", "t", "h", "_", "m", "a", "r", "k", "e", "r">>, Bool(FALSE))
        Raise_(type, msg) == [exc |-> [type |-> type, msg |-> msg], opts |-> DefaultOptions]
    IN  IF options # Null /\ ~is_dict
        THEN Raise_("TypeError", <<"options must be a dict, got", options.t>>)
        ELSE IF n > 0 /\ \E i \in 1..n : KeyAt(i) \notin valid_keys
        THEN Raise_("ValueError", <<"options contains unsupported keys">>)
        ELSE IF n > 0 /\ Has(<<"d", "e", "l", "i", "m", "i", "t", "e", "r">>)
                /\ delimiter \notin {Str(<<DEFAULT_DELIMITER>>), Str(<<PIPE>>), Str(<<TAB>>)}
        THEN Raise_("ValueError", <<"delimiter must be one of">>)
        ELSE IF indent_val.t = "bool" \/ indent_val.t \notin {"int", "long"}
                \/ (indent_val.t = "int" /\ indent_val.n < 0) \/ (indent_val.t = "long" /\ indent_val.neg)
        THEN Raise_("ValueError", <<"indent must be a non-negative int">>)
        ELSE IF length_marker_val.t # "bool"
        THEN Raise_("ValueError", <<"length_marker must be a bool">>)
        ELSE [exc |-> NoExc,
              opts |-> [indent |-> indent_val.n, delimiter |-> delimiter.s[1], length_marker |-> length_marker_val.b]]

\* Decoder.decode(toon_string), the whole call: [stack, root, err]
Decoder_decode(toon_string) ==
    LET t == RStripNewlines(toon_string)
        ls == splitlines(t)
        RECURSIVE Loop(_, _, _)
        Loop(d, i, indent) ==
            IF d.err # NoErr THEN d
            ELSE IF i > Len(ls) THEN Finalize(d)
            ELSE Loop(ProcessLine(d, ls[i], indent), i + 1, indent)
    IN  IF Strip(t) = <<>> THEN [stack |-> <<>>, root |-> Obj(<<>>, <<>>), err |-> NoErr]
        ELSE IF detect_indent_size(ls) = -1 THEN [stack |-> <<>>, root |-> Null, err |-> Err("tab_in_indentation")]
        ELSE Loop([stack |-> <<>>, root |-> Null, err |-> NoErr], 1, detect_indent_size(ls))

\* the frame of caller t after the step that leaves it at pc
Raised(t, exc) == [calls EXCEPT ![t].pc = "raised", ![t].exc = exc]

\* Validate with the options of encode() taken as given, unchecked
Validate_NoOptionsCheck(t) ==
    /\ calls[t].pc = "call"
    /\ calls' = IF calls[t].op = "encode" /\ InputError(calls[t].input) # NoExc
                THEN Raised(t, InputError(calls[t].input))
                ELSE IF calls[t].op = "decode" /\ calls[t].input.t # "str"
                THEN Raised(t, [type |-> "TypeError", msg |-> <<"decode() expects a string, got", calls[t].input.t>>])
                ELSE [calls EXCEPT ![t].pc = "select"]
    /\ UNCHANGED <<default_encoder, default_decoder>>
    /\ UNCHANGED codec

\* encode() and decode(): the checks on input and options, options extracted
Validate(t) ==
    /\ calls[t].pc = "call"
    /\ LET c == calls[t]
           o == OptionsError(c.options)
       IN  calls' =
             IF c.op = "encode"
             THEN IF InputError(c.input) # NoExc THEN Raised(t, InputError(c.input))
                  ELSE IF o.exc # NoExc THEN Raised(t, o.exc)
                  ELSE [calls EXCEPT ![t].pc = "select", ![t].opts = o.opts]
             ELSE IF c.input.t # "str"
                  THEN Raised(t, [type |-> "TypeError", msg |-> <<"decode() expects a string, got", c.input.t>>])
                  ELSE IF c.options # Null /\ c.options.t \notin {"obj", "dict"}
                  THEN Raised(t, [type |-> "TypeError", msg |-> <<"options must be a dict, got", c.options.t>>])
                  ELSE [calls EXCEPT ![t].pc = "select"]
    /\ UNCHANGED <<default_encoder, default_decoder>>
    /\ UNCHANGED codec

\* SelectInstance with every call taken through the cached default instance
SelectInstance_AlwaysDefault(t) ==
    /\ calls[t].pc = "select"
    /\ LET cached == IF calls[t].op = "encode" THEN default_encoder ELSE default_decoder
       IN  calls' = [calls EXCEPT ![t].pc = IF cached = Null THEN "create" ELSE "load"]
    /\ UNCHANGED <<default_encoder, default_decoder>>
    /\ UNCHANGED codec

\* encode() and decode(): the cached default instance or a new instance;
\* on the default path the global is tested against None
SelectInstance(t) ==
    /\ calls[t].pc = "select"
    /\ LET c == calls[t]
           cached == IF c.op = "encode" THEN default_encoder ELSE default_decoder
           use_default == IF c.op = "encode"
                          THEN c.options = Null \/ (c.opts.indent = 2 /\ c.opts.delimiter = DEFAULT_DELIMITER /\ ~c.opts.length_marker)
                          ELSE c.options = Null
       IN  calls' =
             IF use_default
             THEN [calls EXCEPT ![t].pc = IF cached = Null THEN "create" ELSE "load"]
             ELSE IF c.op = "encode"
             THEN [calls EXCEPT ![t].pc = "run",
                                ![t].self = [class |-> "Encoder", by |-> t, indent |-> c.opts.indent,
                                             delimiter |-> c.opts.delimiter, length_marker |-> c.opts.length_marker]]
             ELSE [calls EXCEPT ![t].pc = "run", ![t].self = [class |-> "Decoder", by |-> t]]
    /\ UNCHANGED <<default_encoder, default_decoder>>
    /\ UNCHANGED codec

\* _default_encoder = Encoder(indent=2, delimiter=DEFAULT_DELIMITER, length_marker=False),
\* _default_decoder = Decoder(): the new instance is stored in the global
CreateDefault(t) ==
    /\ calls[t].pc = "create"
    /\ IF calls[t].op = "encode"
       THEN /\ default_encoder' = [class |-> "Encoder", by |-> t, indent |-> 2,
                                   delimiter |-> DEFAULT_DELIMITER, length_marker |-> FALSE]
            /\ UNCHANGED default_decoder
       ELSE /\ default_decoder' = [class |-> "Decoder", by |-> t]
            /\ UNCHANGED default_encoder
    /\ calls' = [calls EXCEPT ![t].pc = "load"]
    /\ UNCHANGED codec

\* return _default_encoder.encode(input), return _default_decoder.decode(input):
\* the global is read for the instance the method is called on
LoadInstance(t) ==
    /\ calls[t].pc = "load"
    /\ calls' = [calls EXCEPT ![t].pc = "run",
                              ![t].self = IF calls[t].op = "encode" THEN default_encoder ELSE default_decoder]
    /\ UNCHANGED <<default_encoder, default_decoder>>
    /\ UNCHANGED codec

\* an encoder that an earlier caller left set to another delimiter
EncoderEncode_KeepsState(t) ==
    /\ calls[t].pc = "run"
    /\ calls[t].op = "encode"
    /\ LET c == calls[t]
           r == normalize_value(c.input, <<>>, 1)
           self == IF c.self.by # t THEN [c.self EXCEPT !.delimiter = PIPE] ELSE c.self
       IN  calls' =
             IF InputError(c.input) # NoExc THEN Raised(t, InputError(c.input))
             ELSE IF r.err # NoErr
             THEN Raised(t, [type |-> "ValueError",
                             msg |-> <<"Detected circular reference during normalization/encoding. Ensure input structures are acyclic.">>])
             ELSE [calls EXCEPT ![t].pc = "returned", ![t].normalized = r.v,
                                ![t].result = Str(encode_value(self, r.v))]
    /\ UNCHANGED <<default_encoder, default_decoder>>
    /\ UNCHANGED codec

\* Encoder.encode(value): the input checks, normalize_value, _encode_value
\* with a LineWriter of its own
EncoderEncode(t) ==
    /\ calls[t].pc = "run"
    /\ calls[t].op = "encode"
    /\ LET c == calls[t]
           r == normalize_value(c.input, <<>>, 1)
       IN  calls' =
             IF InputError(c.input) # NoExc THEN Raised(t, InputError(c.input))
             ELSE IF r.err # NoErr
             THEN Raised(t, [type |-> "ValueError",
                             msg |-> <<"Detected circular reference during normalization/encoding. Ensure input structures are acyclic.">>])
             ELSE [calls EXCEPT ![t].pc = "returned", ![t].normalized = r.v,
                                ![t].result = Str(encode_value(c.self, r.v))]
    /\ UNCHANGED <<default_encoder, default_decoder>>
    /\ UNCHANGED codec

\* Decoder.decode(toon_string): every variable of the call is a local
DecoderDecode(t) ==
    /\ calls[t].pc = "run"
    /\ calls[t].op = "decode"
    /\ LET d == Decoder_decode(calls[t].input.s)
       IN  calls' =
             IF d.err # NoErr THEN Raised(t, [type |-> "ValueError", msg |-> <<d.err.kind>>])
             ELSE [calls EXCEPT ![t].pc = "returned", ![t].result = d.root]
    /\ UNCHANGED <<default_encoder, default_decoder>>
    /\ UNCHANGED codec

---------------------------------------------------------------------------
(* The calls of the entry points: their arguments *)

Long(neg, digits) == [t |-> "long", neg |-> neg, digits |-> digits]

Ref(up) == [t |-> "ref", up |-> up]

Dict(keys, vals) == [t |-> "dict", keys |-> keys, vals |-> vals]

Other(type) == [t |-> "other", type |-> type]

\* 2**53 - 1, 2**53, 2**53 + 1, 2**53 - 2, 2**31, 10**15, 10**16, 10**20, 99999999999999999
LongDigits ==
    {MAX_SAFE_INTEGER,
     <<"9", "0", "0", "7", "1", "9", "9", "2", "5", "4", "7", "4", "0", "9", "9", "2">>,
     <<"9", "0", "0", "7", "1", "9", "9", "2", "5", "4", "7", "4", "0", "9", "9", "3">>,
     <<"9", "0", "0", "7", "1", "9", "9", "2", "5", "4", "7", "4", "0", "9", "9", "0">>,
     <<"2", "1", "4", "7", "4", "8", "3", "6", "4", "8">>,
     <<"1", "0", "0", "0", "0", "0", "0", "0", "0", "0", "0", "0", "0", "0", "0", "0">>,
     <<"1", "0", "0", "0", "0", "0", "0", "0", "0", "0", "0", "0", "0", "0", "0", "0", "0">>,
     <<"1", "0", "0", "0", "0", "0", "0", "0", "0", "0", "0", "0", "0", "0", "0", "0", "0", "0", "0", "0", "0">>,
     <<"8", "9", "9", "9", "9", "9", "9", "9", "9", "9", "9", "9", "9", "9", "9", "9">>,
     <<"9", "1", "0", "0", "0", "0", "0", "0", "0", "0", "0", "0", "0", "0", "0", "0">>}

Longs == {Long(neg, ds) : neg \in BOOLEAN, ds \in LongDigits}

HostScalars ==
    {Null, Bool(TRUE), Bool(FALSE), Int_(0), Int_(1), Int_(-MaxInt), Str(<<"a">>), Str(<<"1">>), Str(<<>>),
     Float(<<"n", "a", "n">>), Float(<<"i", "n", "f">>), Float(<<"-", "i", "n", "f">>),
     Float(<<"-", "0", ".", "0">>), Float(<<"0", ".", "0">>), Float(<<"1", ".", "5">>), Float(<<"3", ".", "0">>),
     [t |-> "datetime", iso |-> <<"2", "0", "2", "0", "-", "0", "1", "-", "0", "1", "T", "0", "0", ":", "0", "0", ":", "0", "0">>]}
    \cup Longs

\* objects that are none of the types normalize_value knows: a tuple, bytes,
\* a frozenset, a plain object, and three callables that are neither a
\* function, a method nor a builtin
Others == {Other(ty) : ty \in {"tuple", "bytes", "frozenset", "object", "callable_instance", "partial", "method_descriptor"}}

\* the objects encode() refuses at top level
Rejected == {[t |-> ty] : ty \in {"module", "type", "function", "method", "builtin"}}

HostContainers ==
    {Arr(<<>>), Arr(<<Int_(1), Str(<<"a">>)>>), Obj(<<>>, <<>>), Obj(<<<<"a">>>>, <<Int_(1)>>),
     Arr(<<Obj(<<<<"a">>>>, <<Int_(1)>>)>>), Obj(<<<<"a">>, <<"b">>>>, <<Arr(<<Int_(1), Int_(MaxInt)>>), Null>>),
     [t |-> "set", items |-> {}], [t |-> "set", items |-> {Int_(MaxInt), Int_(1), Int_(-1)}],
     Arr(<<[t |-> "set", items |-> {Int_(1), Int_(0)}], Float(<<"n", "a", "n">>)>>),
     Dict(<<Int_(1)>>, <<Str(<<"x">>)>>), Dict(<<Int_(1), Str(<<"1">>)>>, <<Str(<<"x">>), Str(<<"y">>)>>),
     Dict(<<Null, Bool(TRUE)>>, <<Int_(1), Float(<<"-", "0", ".", "0">>)>>),
     Dict(<<Str(<<"a">>), Long(FALSE, MAX_SAFE_INTEGER)>>, <<Other("tuple"), Int_(1)>>),
     Arr(<<Long(FALSE, <<"9", "0", "0", "7", "1", "9", "9", "2", "5", "4", "7", "4", "0", "9", "9", "2">>), Long(TRUE, MAX_SAFE_INTEGER)>>),
     Obj(<<<<"b", "i", "g">>>>, <<Long(TRUE, <<"9", "0", "0", "7", "1", "9", "9", "2", "5", "4", "7", "4", "0", "9", "9", "2">>)>>),
     Arr(<<[t |-> "function"], [t |-> "type"], [t |-> "module"]>>), Obj(<<<<"f">>>>, <<[t |-> "builtin"]>>),
     Arr(<<Other("object"), Int_(1)>>)}

\* graphs with a cycle: lst.append(lst); d["self"] = d; outer["inner"]["back"] = outer;
\* d1["ref"] = d2 and d2["ref"] = d1 in [d1, d2]; a list in a list in itself;
\* a dict with an int key holding itself
Cyclic ==
    {Arr(<<Int_(1), Ref(1)>>),
     Obj(<<<<"a">>, <<"s">>>>, <<Int_(1), Ref(1)>>),
     Obj(<<<<"i">>>>, <<Obj(<<<<"b">>>>, <<Ref(2)>>)>>),
     Arr(<<Obj(<<<<"n">>, <<"r">>>>, <<Int_(1), Obj(<<<<"n">>, <<"r">>>>, <<Int_(MaxInt), Ref(2)>>)>>), Int_(0)>>),
     Arr(<<Arr(<<Ref(2)>>)>>),
     Dict(<<Int_(1)>>, <<Ref(1)>>)}

HostValues == HostScalars \cup Others \cup Rejected \cup HostContainers \cup Cyclic

Opt(k, v) == Obj(<<k>>, <<v>>)

\* options that encode() accepts
GoodOptions ==
    {Null, Obj(<<>>, <<>>),
     Opt(<<"i", "n", "d", "e", "n", "t">>, Int_(0)), Opt(<<"i", "n", "d", "e", "n", "t">>, Int_(2)),
     Opt(<<"d", "e", "l", "i", "m", "i", "t", "e", "r">>, Str(<<PIPE>>)), Opt(<<"d", "e", "l", "i", "m", "i", "t", "e", "r">>, Str(<<TAB>>)),
     Opt(<<"l", "e", "n", "g", "t", "h", "_", "m", "a", "r", "k", "e", "r">>, Bool(TRUE)),
     Obj(<<<<"i", "n", "d", "e", "n", "t">>, <<"d", "e", "l", "i", "m", "i", "t", "e", "r">>, <<"l", "e", "n", "g", "t", "h", "_", "m", "a", "r", "k", "e", "r">>>>,
         <<Int_(2), Str(<<COMMA>>), Bool(FALSE)>>)}

\* options that are no dict: a str, a list, an int, a tuple, a mappingproxy
NonDictOptions == {Str(<<"a">>), Arr(<<Str(<<"a">>)>>), Arr(<<>>), Int_(0), Int_(1), Other("tuple"), Other("mappingproxy")}

\* dicts with a key or a value encode() refuses, alone and together
BadOptions ==
    {Opt(<<"i", "n", "v", "a", "l", "i", "d">>, Bool(TRUE)), Dict(<<Int_(1)>>, <<Int_(2)>>),
     Obj(<<<<"i", "n", "d", "e", "n", "t">>, <<"b", "a", "d">>>>, <<Int_(2), Int_(1)>>),
     Opt(<<"d", "e", "l", "i", "m", "i", "t", "e", "r">>, Str(<<";">>)), Opt(<<"d", "e", "l", "i", "m", "i", "t", "e", "r">>, Str(<<" ">>)),
     Opt(<<"d", "e", "l", "i", "m", "i", "t", "e", "r">>, Str(<<",", ",">>)), Opt(<<"d", "e", "l", "i", "m", "i", "t", "e", "r">>, Str(<<>>)),
     Opt(<<"d", "e", "l", "i", "m", "i", "t", "e", "r">>, Arr(<<Str(<<",">>)>>)), Opt(<<"d", "e", "l", "i", "m", "i", "t", "e", "r">>, Null),
     Opt(<<"i", "n", "d", "e", "n", "t">>, Int_(-1)), Opt(<<"i", "n", "d", "e", "n", "t">>, Str(<<"2">>)),
     Opt(<<"i", "n", "d", "e", "n", "t">>, Float(<<"2", ".", "5">>)), Opt(<<"i", "n", "d", "e", "n", "t">>, Float(<<"2", ".", "0">>)),
     Opt(<<"i", "n", "d", "e", "n", "t">>, Bool(TRUE)), Opt(<<"i", "n", "d", "e", "n", "t">>, Bool(FALSE)),
     Opt(<<"i", "n", "d", "e", "n", "t">>, Null),
     Opt(<<"l", "e", "n", "g", "t", "h", "_", "m", "a", "r", "k", "e", "r">>, Str(<<"#">>)),
     Opt(<<"l", "e", "n", "g", "t", "h", "_", "m", "a", "r", "k", "e", "r">>, Int_(1)),
     Opt(<<"l", "e", "n", "g", "t", "h", "_", "m", "a", "r", "k", "e", "r">>, Int_(0)),
     Opt(<<"l", "e", "n", "g", "t", "h", "_", "m", "a", "r", "k", "e", "r">>, Null),
     Obj(<<<<"d", "e", "l", "i", "m", "i", "t", "e", "r">>, <<"i", "n", "d", "e", "n", "t">>>>, <<Str(<<";">>), Int_(-1)>>),
     Obj(<<<<"l", "e", "n", "g", "t", "h", "_", "m", "a", "r", "k", "e", "r">>, <<"i", "n", "d", "e", "n", "t">>>>, <<Int_(1), Int_(4)>>)}

OptionArgs == GoodOptions \cup NonDictOptions \cup BadOptions

\* the texts decode() is called on: Docs that decode, Docs that raise
DecodeTexts ==
    {<<"a", ":", " ", "1">>, <<"[", "2", "]", ":", " ", "1", ",", "2">>, <<>>, <<"x">>,
     <<"a", ":", NEWLINE, " ", " ", "b", ":", " ", "1">>,
     <<"[", "2", "]", ":", " ", "1">>, <<"a", ":", NEWLINE, TAB, "b", ":", " ", "1">>}

Call(op, value, options) ==
    [op |-> op, input |-> value, options |-> options, pc |-> "call", opts |-> DefaultOptions,
     self |-> Null, normalized |-> Unset, result |-> Unset, exc |-> NoExc]

\* the calls of the first caller: every host value under two options, four
\* values under every options argument, the decode calls
ApiCalls ==
    {Call("encode", v, o) : v \in HostValues, o \in {Null, Opt(<<"d", "e", "l", "i", "m", "i", "t", "e", "r">>, Str(<<PIPE>>))}}
    \cup {Call("encode", v, o) : v \in {Int_(1), Arr(<<Int_(1), Str(<<"a">>)>>), [t |-> "function"], Arr(<<Int_(1), Ref(1)>>)},
                                 o \in OptionArgs}
    \cup {Call("decode", Str(s), o) : s \in DecodeTexts, o \in {Null, Obj(<<>>, <<>>), Str(<<"a">>)}}
    \cup {Call("decode", v, Null) : v \in {Int_(1), Null, Arr(<<Str(<<"a">>)>>)}}

\* the calls of the second caller, made while the first call is in progress
ConcurrentCalls ==
    {Call("encode", Arr(<<Int_(1), Str(<<"a">>)>>), Null),
     Call("encode", Obj(<<<<"a">>>>, <<Int_(1)>>), Obj(<<>>, <<>>)),
     Call("encode", Arr(<<Int_(1), Int_(MaxInt)>>), Opt(<<"d", "e", "l", "i", "m", "i", "t", "e", "r">>, Str(<<PIPE>>))),
     Call("encode", Arr(<<Int_(1), Ref(1)>>), Null),
     Call("decode", Str(<<"a", ":", " ", "1">>), Null),
     Call("decode", Str(<<"[", "2", "]", ":", " ", "1">>), Null),
     Call("decode", Str(<<"x">>), Obj(<<>>, <<>>))}

---------------------------------------------------------------------------
(* Two callers of the entry points, their steps interleaved *)

InitApi ==
    /\ input = [kind |-> "api"]
    /\ pc = "api"
    /\ text = <<>>
    /\ tampered = FALSE
    /\ lines = <<>>
    /\ indent_size = 0
    /\ line_num = 0
    /\ stack = <<>>
    /\ root = Null
    /\ err = NoErr
    /\ warnings = <<>>
    /\ default_encoder = Null
    /\ default_decoder = Null
    /\ \E c1 \in ApiCalls, c2 \in ConcurrentCalls : calls = <<c1, c2>>

NextApi ==
    \E t \in DOMAIN calls :
        \/ Validate(t)
        \/ SelectInstance(t)
        \/ CreateDefault(t)
        \/ LoadInstance(t)
        \/ EncoderEncode(t)
        \/ DecoderDecode(t)

SpecApi == InitApi /\ [][NextApi]_vars

---------------------------------------------------------------------------
(* Properties *)

\* a run of encode followed by decode of the text encode returned
IsEncodeRun == input.kind = "value" /\ ~tampered

Finished == pc \in {"done", "error"}

\* equality of values as Python compares them: dicts equal whatever their key order
RECURSIVE SameValue(_, _)
SameValue(a, b) ==
    IF a.t # b.t THEN FALSE
    ELSE IF a.t = "arr"
    THEN Len(a.items) = Len(b.items) /\ \A i \in 1..Len(a.items) : SameValue(a.items[i], b.items[i])
    ELSE IF a.t = "obj"
    THEN /\ Len(a.keys) = Len(b.keys)
         /\ \A i \in 1..Len(a.keys) : HasKey(b, a.keys[i]) /\ SameValue(a.vals[i], ObjGet(b, a.keys[i]))
    ELSE a = b

\* C1: for every value, each delimiter and each length_marker setting,
\* decode(encode(v, opts)) returns a value equal to v.
C1_RoundTrip ==
    (IsEncodeRun /\ input.o.indent = 2 /\ Finished) => (pc = "done" /\ SameValue(root, input.v))

\* the array is neither empty nor made of scalars only, so it is written as
\* a tabular or a hyphen-list array
NotInline(x) == x.t = "arr" /\ ~is_array_of_primitives(x)

\* v holds a list-format array with an object item whose first field is a
\* tabular or hyphen-list array
RECURSIVE HasFirstFieldArray(_)
HasFirstFieldArray(v) ==
    IF v.t = "arr"
    THEN \E i \in 1..Len(v.items) :
            \/ /\ detect_tabular_header(v) = <<>>
               /\ v.items[i].t = "obj"
               /\ v.items[i].keys # <<>>
               /\ NotInline(v.items[i].vals[1])
            \/ HasFirstFieldArray(v.items[i])
    ELSE IF v.t = "obj" THEN \E i \in 1..Len(v.vals) : HasFirstFieldArray(v.vals[i])
    ELSE FALSE

\* C2: a value holding a list-format array whose object item has a tabular or
\* hyphen-list array as its first field round-trips: decode(encode(v)) = v.
C2_FirstFieldArrayRoundTrip ==
    (IsEncodeRun /\ input.o = DefaultOptions /\ Finished /\ HasFirstFieldArray(input.v))
        => (pc = "done" /\ SameValue(root, input.v))

\* v holds an array nested n or more levels deep
RECURSIVE HasNestedArray(_, _)
HasNestedArray(v, n) ==
    IF n = 0 THEN TRUE
    ELSE IF v.t = "arr"
    THEN \E i \in 1..Len(v.items) : HasNestedArray(v.items[i], IF v.items[i].t = "arr" THEN n - 1 ELSE n)
    ELSE IF v.t = "obj" THEN \E i \in 1..Len(v.vals) : HasNestedArray(v.vals[i], n)
    ELSE FALSE

\* an array inside an array inside an array
HasDeepArray(v) ==
    \/ v.t = "arr" /\ HasNestedArray(v, 2)
    \/ v.t = "obj" /\ \E i \in 1..Len(v.vals) : v.vals[i].t = "arr" /\ HasNestedArray(v.vals[i], 2)

\* C3: for every value, however deeply nested, the text encode returns is
\* valid TOON: decode accepts it without a format error. Stated for the case
\* the claim names, values holding arrays nested three or more levels deep.
C3_EncodedTextIsValid ==
    (IsEncodeRun /\ input.o = DefaultOptions /\ HasDeepArray(input.v)) => pc # "error"

\* the line the loop of decode reads next
NextRaw == lines[line_num + 1]

AtContentLine == pc = "lines" /\ line_num < Len(lines) /\ Strip(NextRaw) # <<>>

AtBlankLine == pc = "lines" /\ line_num < Len(lines) /\ Strip(NextRaw) = <<>>

AtEndOfInput == pc = "lines" /\ line_num = Len(lines)

\* the open context i is a hyphen-list array whose item count differs from
\* the length its header declares
ListLengthDiffers(i) == stack[i].kind = "array_list" /\ ArrLen(D, stack[i]) # stack[i].expected

\* the line at (depth, content) ends the open list i: every context above
\* it is deeper than the line, and the line either dedents out of the list
\* or is a non-item line at the depth of its items
LineEndsList(i, depth, content) ==
    /\ \A k \in (i + 1)..Len(stack) : stack[k].content_depth > depth
    /\ \/ depth < stack[i].content_depth
       \/ depth = stack[i].content_depth /\ content[1] # "-"

\* a list array's length mismatch is discovered by the next step of decode
ListMismatchDiscovered ==
    \/ AtEndOfInput /\ \E i \in 1..Len(stack) : ListLengthDiffers(i)
    \/ /\ AtContentLine
       /\ LET dc == calc_depth_and_content(NextRaw, indent_size)
          IN  dc.err = NoErr /\ \E i \in 1..Len(stack) : ListLengthDiffers(i) /\ LineEndsList(i, dc.depth, dc.content)

\* C4: whenever a hyphen-list array has fewer or more items than its header
\* declares, decode raises a format error naming the declared length and the
\* actual count, whether a later line dedents out of the array, a non-item
\* line follows at the same depth, or the input ends.
C4_ListLengthMismatch ==
    [][ListMismatchDiscovered =>
          /\ pc' = "error"
          /\ err'.kind = "array_length_mismatch"
          /\ \E i \in 1..Len(stack) :
                ListLengthDiffers(i) /\ err'.expected = stack[i].expected /\ err'.found = ArrLen(D, stack[i])]_vars

\* the open context i is a tabular array with fewer rows than its header declares
TabularRowsMissing(i) == stack[i].kind = "array_tabular" /\ ArrLen(D, stack[i]) < stack[i].expected

\* C5: a tabular array with a number of rows different from the declared
\* length makes decode raise a format error. Stated for the arrays with fewer
\* rows than declared: when decode ends such an array, by a dedent or at the
\* end of input, it raises.
C5_TabularRowCount ==
    [][(pc = "lines" /\ \E i \in 1..Len(stack) :
            /\ TabularRowsMissing(i)
            /\ \/ pc' = "done"
               \/ pc' = "lines" /\ ~(Len(stack') >= i /\ stack'[i] = stack[i]))
         => FALSE]_vars

\* some open context is a list or tabular array that has not reached its declared length
OpenArrayBelowLength ==
    \E i \in 1..Len(stack) :
        stack[i].kind \in {"array_list", "array_tabular"} /\ ArrLen(D, stack[i]) < stack[i].expected

\* C6: a blank line makes decode raise a format error if and only if some
\* open context is a list or tabular array that has not yet reached its
\* declared length; any other blank line is skipped and changes nothing.
C6_BlankLine ==
    [][AtBlankLine =>
          IF OpenArrayBelowLength THEN pc' = "error"
          ELSE pc' = "lines" /\ root' = root /\ stack' = stack]_vars

\* C10: for every key k and every value shape, decoding the text the encoder
\* emits for the entry k: v yields an object whose key is exactly k with value v.
C10_KeyedEntryRoundTrip ==
    (IsEncodeRun /\ input.o = DefaultOptions /\ Finished /\ input.v.t = "obj" /\ Len(input.v.keys) = 1)
        => (pc = "done" /\ root = input.v)

\* the innermost open list that the line at (depth, content) ends with a wrong item count
InnermostEndedList(depth, content) ==
    CHOOSE i \in 1..Len(stack) :
        /\ ListLengthDiffers(i) /\ LineEndsList(i, depth, content)
        /\ \A k \in (i + 1)..Len(stack) : ~(ListLengthDiffers(k) /\ LineEndsList(k, depth, content))

\* the next line is a non-item line at the depth of the items of a list that
\* already holds more items than declared
NonItemLineInOverfullList ==
    /\ AtContentLine
    /\ LET dc == calc_depth_and_content(NextRaw, indent_size)
       IN  /\ dc.err = NoErr
           /\ \E i \in 1..Len(stack) : ListLengthDiffers(i) /\ LineEndsList(i, dc.depth, dc.content)
           /\ LET j == InnermostEndedList(dc.depth, dc.content)
              IN  dc.depth = stack[j].content_depth /\ ArrLen(D, stack[j]) > stack[j].expected

\* C4 (amended): whenever a hyphen-list array has fewer or more items than its
\* header declares, decode raises a format error, discovered at a dedent, at a
\* non-item line at the depth of the items, or at end of input. The error
\* names the declared length and the actual count, except when the array
\* holds more items than declared and a non-item line follows at the depth of
\* its items: that line is rejected as a list item without the "- " prefix.
C4_ListLengthMismatchAmended ==
    [][ListMismatchDiscovered =>
          /\ pc' = "error"
          /\ IF NonItemLineInOverfullList THEN err'.kind = "list_item_prefix"
             ELSE /\ err'.kind = "array_length_mismatch"
                  /\ \E i \in 1..Len(stack) :
                        /\ ListLengthDiffers(i)
                        /\ err'.expected = stack[i].expected
                        /\ err'.found = ArrLen(D, stack[i])]_vars

\* a list declared with 3 items and holding 2 was rejected naming both counts
C4_Witness ==
    /\ pc = "error"
    /\ err = ErrCounts("array_length_mismatch", 3, 2)
    /\ \E i \in 1..Len(stack) : stack[i].kind = "array_list" /\ stack[i].expected = 3 /\ ArrLen(D, stack[i]) = 2

\* the bare text s reads as a literal or a number
Ambiguous(s) == parse_primitive(s).err = NoErr /\ parse_primitive(s).v.t \in {"null", "bool", "int", "float"}

\* C7: for every string s and every delimiter, the scalar text the encoder
\* emits for s is parsed by the decoder's scalar parser back to exactly s,
\* and every string ambiguous with a literal or a number is emitted quoted.
C7_ScalarRoundTrip ==
    input.kind = "scalar" =>
        /\ pc # "error"
        /\ pc = "done" => root = Str(input.s)
        /\ (pc \in {"call_parse_primitive", "done"} /\ Ambiguous(input.s)) => is_quoted(text)

\* the string "42" was emitted quoted and parsed back as a string
C7_Witness ==
    /\ input.kind = "scalar"
    /\ pc = "done"
    /\ input.s = <<"4", "2">>
    /\ text = <<DOUBLE_QUOTE, "4", "2", DOUBLE_QUOTE>>
    /\ root = Str(<<"4", "2">>)

\* the first array of the encoded value: the value itself, or the value of
\* the first key of an object
HasHeadArray ==
    /\ input.kind = "value"
    /\ \/ input.v.t = "arr"
       \/ input.v.t = "obj" /\ input.v.keys # <<>> /\ input.v.vals[1].t = "arr"

HeadArray == IF input.v.t = "arr" THEN input.v ELSE input.v.vals[1]

\* at least 2 elements, all objects, one shared non-empty key set, all values scalar
TabularCondition(a) ==
    /\ Len(a.items) >= 2
    /\ \A i \in 1..Len(a.items) :
          /\ a.items[i].t = "obj"
          /\ a.items[i].keys # <<>>
          /\ {a.items[i].keys[j] : j \in 1..Len(a.items[i].keys)} = {a.items[1].keys[j] : j \in 1..Len(a.items[1].keys)}
          /\ \A j \in 1..Len(a.items[i].vals) : a.items[i].vals[j].t \in {"null", "bool", "int", "str", "float"}

\* exactly 1 object with a non-empty key set and scalar values
OneUniformObject(a) ==
    /\ Len(a.items) = 1
    /\ a.items[1].t = "obj"
    /\ a.items[1].keys # <<>>
    /\ \A j \in 1..Len(a.items[1].vals) : a.items[1].vals[j].t \in {"null", "bool", "int", "str", "float"}

EndsWith(s, p) == Len(s) >= Len(p) /\ SubSeq(s, Len(s) - Len(p) + 1, Len(s)) = p

\* the text opens with a tabular header: key[N]{fields}:
RendersTabular == text # <<>> /\ EndsWith(splitlines(text)[1], <<CLOSE_BRACE, COLON>>)

\* the text opens with a bare header key[N]: followed by a hyphen line
RendersHyphenList ==
    /\ Len(splitlines(text)) >= 2
    /\ EndsWith(splitlines(text)[1], <<CLOSE_BRACKET, COLON>>)
    /\ StartsWith(LStrip(splitlines(text)[2]), LIST_ITEM_PREFIX)

Reordered(obj, ks) == Obj(ks, [j \in 1..Len(ks) |-> ObjGet(obj, ks[j])])

\* v with the rows of every tabular array listing their keys in the order of the first row
RECURSIVE HeaderOrdered(_)
HeaderOrdered(v) ==
    IF v.t = "arr"
    THEN IF TabularCondition(v)
         THEN Arr([i \in 1..Len(v.items) |-> Reordered(v.items[i], v.items[1].keys)])
         ELSE Arr([i \in 1..Len(v.items) |-> HeaderOrdered(v.items[i])])
    ELSE IF v.t = "obj" THEN Obj(v.keys, [i \in 1..Len(v.vals) |-> HeaderOrdered(v.vals[i])])
    ELSE v

\* C9: key insertion order is preserved through a round trip: every object of
\* decode(encode(v)) lists its keys in the same order as in v, the rows of
\* tabular arrays included.
C9_KeyOrderPreserved ==
    (IsEncodeRun /\ pc = "done" /\ SameValue(root, input.v)) => root = input.v

\* C9 (amended): through a round trip that returns the keys and values of v,
\* every object lists its keys in the same order as in v, except the rows of
\* an array rendered in tabular form, which all list their keys in the order
\* of the array's first row.
C9_KeyOrderAmended ==
    (IsEncodeRun /\ pc = "done" /\ SameValue(root, input.v)) => root = HeaderOrdered(input.v)

\* a round trip returned an object with two keys in their order, inside a
\* value whose tabular rows came back in the order of the first row
C9_Witness ==
    /\ IsEncodeRun /\ pc = "done" /\ SameValue(root, input.v)
    /\ root = HeaderOrdered(input.v)
    /\ root # input.v

---------------------------------------------------------------------------
(* The quoting rule *)

\* the conditions under which a string is emitted bare, as the quoting rule
\* lists them; start is the prefix a bare string may not begin with
SafeAsListed(s, d, start) ==
    /\ s # <<>>
    /\ s[1] \notin Whitespace
    /\ s[Len(s)] \notin Whitespace
    /\ s \notin {<<"t", "r", "u", "e">>, <<"f", "a", "l", "s", "e">>, <<"n", "u", "l", "l">>}
    /\ \A i \in 1..Len(s) : s[i] \notin {":", "\"", "\\", d}
    /\ ~StartsWith(s, start)
    /\ \A i \in 1..Len(s) : s[i] \notin {"[", "]", "{", "}"}
    /\ \A i \in 1..Len(s) : s[i] \notin {"\n", "\r", "\t"}
    /\ ~NumericFullMatch(s)
    /\ ~OctalFullMatch(s)

\* the scalar call has encoded its string
ScalarEncoded == input.kind = "scalar" /\ pc \in {"call_parse_primitive", "done", "error"}

---------------------------------------------------------------------------
(* Tabs in strings and in keys *)

\* s between quotes, each tab written as tab and the other escapes applied
QuotedWithTab(s, tab) ==
    <<"\"">> \o Concat([i \in 1..Len(s) |->
                  CASE s[i] = "\t" -> tab
                    [] s[i] = "\\" -> <<"\\", "\\">>
                    [] s[i] = "\"" -> <<"\\", "\"">>
                    [] s[i] = "\n" -> <<"\\", "n">>
                    [] s[i] = "\r" -> <<"\\", "r">>
                    [] OTHER -> <<s[i]>>]) \o <<"\"">>

HasSub(s, sub) == \E i \in 1..(Len(s) - Len(sub) + 1) : SubSeq(s, i, i + Len(sub) - 1) = sub

\* the object keys (field names included) and the string values of v
RECURSIVE KeysOf(_)
KeysOf(v) ==
    IF v.t = "arr" THEN UNION {KeysOf(v.items[i]) : i \in 1..Len(v.items)}
    ELSE IF v.t = "obj" THEN {v.keys[i] : i \in 1..Len(v.keys)} \cup UNION {KeysOf(v.vals[i]) : i \in 1..Len(v.vals)}
    ELSE {}

RECURSIVE StringsOf(_)
StringsOf(v) ==
    IF v.t = "arr" THEN UNION {StringsOf(v.items[i]) : i \in 1..Len(v.items)}
    ELSE IF v.t = "obj" THEN UNION {StringsOf(v.vals[i]) : i \in 1..Len(v.vals)}
    ELSE IF v.t = "str" THEN {v.s}
    ELSE {}

HasTab(s) == \E i \in 1..Len(s) : s[i] = "\t"

\* C12: with tab as the delimiter a string value holding a tab is emitted in
\* quotes with the tab left as it is, and a tab in an object key or a tabular
\* field name is emitted as backslash-t whatever the delimiter.
C12_TabEscaping ==
    (IsEncodeRun /\ pc # "call_encode") =>
        /\ \A k \in KeysOf(input.v) :
              HasTab(k) =>
                  /\ HasSub(text, QuotedWithTab(k, <<"\\", "t">>))
                  /\ k \notin StringsOf(input.v) => ~HasSub(text, QuotedWithTab(k, <<"\t">>))
        /\ input.o.delimiter = "\t" =>
              \A x \in StringsOf(input.v) :
                  HasTab(x) =>
                      /\ HasSub(text, QuotedWithTab(x, <<"\t">>))
                      /\ x \notin KeysOf(input.v) => ~HasSub(text, QuotedWithTab(x, <<"\\", "t">>))

\* under the tab delimiter, an entry whose key and string value both hold a tab
\* was written with the key's tab escaped and the value's tab left as it is
C12_Witness ==
    /\ IsEncodeRun /\ pc # "call_encode"
    /\ input.o.delimiter = "\t"
    /\ input.v = Obj(<<<<"a", "\t">>>>, <<Str(<<"a", "\t", "b">>)>>)
    /\ text = <<"\"", "a", "\\", "t", "\"", ":", " ", "\"", "a", "\t", "b", "\"">>

---------------------------------------------------------------------------
(* Indentation *)

\* the lines of the text handed to decode
DocLines == splitlines(RStripNewlines(text))

NonBlank(l) == \E i \in 1..Len(l) : l[i] \notin Whitespace

\* the number of spaces the line starts with
RECURSIVE LeadingSpaces(_)
LeadingSpaces(l) == IF l # <<>> /\ l[1] = " " THEN 1 + LeadingSpaces(Tail(l)) ELSE 0

\* a tab stands in the run of spaces and tabs the line starts with
TabIndented(l) == \E i \in 1..Len(l) : l[i] = "\t" /\ \A j \in 1..(i - 1) : l[j] \in {" ", "\t"}

\* the least non-zero count of leading spaces over the non-blank lines, 0 when there is none
IndentUnit ==
    LET counts == {LeadingSpaces(DocLines[i]) : i \in {j \in 1..Len(DocLines) : NonBlank(DocLines[j])}} \ {0}
    IN  IF counts = {} THEN 0 ELSE CHOOSE m \in counts : \A n \in counts : m <= n

\* a non-blank line whose leading spaces are not a multiple of the unit
OffUnitLine ==
    /\ IndentUnit > 0
    /\ \E i \in 1..Len(DocLines) : NonBlank(DocLines[i]) /\ LeadingSpaces(DocLines[i]) % IndentUnit # 0

Decoded == pc \in {"done", "error"} /\ input.kind \in {"value", "text"}

\* C13: decode raises for any non-blank line whose leading-space count is not
\* a multiple of the indent unit (the least non-zero count over the non-blank
\* lines), and for any line that has a tab in its indentation.
C13_IndentationErrors ==
    (Decoded /\ (OffUnitLine \/ \E i \in 1..Len(DocLines) : TabIndented(DocLines[i]))) => pc = "error"

\* C13 amended: the same, a tab counting only in the indentation of a non-blank line.
C13_IndentationErrorsAmended ==
    (Decoded /\ (OffUnitLine \/ \E i \in 1..Len(DocLines) : NonBlank(DocLines[i]) /\ TabIndented(DocLines[i])))
        => pc = "error"

\* a line of three spaces under a unit of two was refused as invalid indentation
C13_Witness ==
    /\ Decoded
    /\ IndentUnit = 2
    /\ OffUnitLine
    /\ pc = "error"
    /\ err.kind = "invalid_indentation"

---------------------------------------------------------------------------
(* Indent width 0 *)

\* an array or an object holding an array or an object
IsNested(v) ==
    \/ v.t = "arr" /\ \E i \in 1..Len(v.items) : v.items[i].t \in {"arr", "obj"}
    \/ v.t = "obj" /\ \E i \in 1..Len(v.vals) : v.vals[i].t \in {"arr", "obj"}

\* the text the same call writes with an indent width of 2, line by line
LinesAtWidth2 == splitlines(encode_value([input.o EXCEPT !.indent = 2], input.v))

\* each line of the text starts with one space per level: half the spaces
\* the same line starts with at width 2, before the same content
OneSpacePerLevel ==
    /\ Len(splitlines(text)) = Len(LinesAtWidth2)
    /\ \A i \in 1..Len(LinesAtWidth2) :
          LET n == LeadingSpaces(LinesAtWidth2[i])
          IN  splitlines(text)[i] = Spaces(n \div 2) \o From(LinesAtWidth2[i], n + 1)

\* C14: with indent width 0 a line at depth k starts with exactly k single
\* spaces, and decode(encode(v, {indent: 0})) = v for nested values.
C14_IndentZero ==
    (IsEncodeRun /\ input.o.indent = 0 /\ pc # "call_encode" /\ input.v.t \in {"arr", "obj"}) =>
        /\ OneSpacePerLevel
        /\ (Finished /\ IsNested(input.v)) => (pc = "done" /\ SameValue(root, input.v))

---------------------------------------------------------------------------
(* Concurrent callers and the cached default instances *)

\* the outcome of call c made alone, read off its arguments: the frame at
\* its last step
Alone(c) ==
    IF c.op = "encode"
    THEN LET o == OptionsError(c.options)
             r == normalize_value(c.input, <<>>, 1)
         IN  IF InputError(c.input) # NoExc THEN [pc |-> "raised", result |-> Unset, exc |-> InputError(c.input)]
             ELSE IF o.exc # NoExc THEN [pc |-> "raised", result |-> Unset, exc |-> o.exc]
             ELSE IF r.err # NoErr
             THEN [pc |-> "raised", result |-> Unset,
                   exc |-> [type |-> "ValueError",
                            msg |-> <<"Detected circular reference during normalization/encoding. Ensure input structures are acyclic.">>]]
             ELSE [pc |-> "returned", result |-> Str(encode_value(o.opts, r.v)), exc |-> NoExc]
    ELSE IF c.input.t # "str"
    THEN [pc |-> "raised", result |-> Unset, exc |-> [type |-> "TypeError", msg |-> <<"decode() expects a string, got", c.input.t>>]]
    ELSE IF c.options # Null /\ c.options.t \notin {"obj", "dict"}
    THEN [pc |-> "raised", result |-> Unset, exc |-> [type |-> "TypeError", msg |-> <<"options must be a dict, got", c.options.t>>]]
    ELSE LET d == Decoder_decode(c.input.s)
         IN  IF d.err # NoErr THEN [pc |-> "raised", result |-> Unset, exc |-> [type |-> "ValueError", msg |-> <<d.err.kind>>]]
             ELSE [pc |-> "returned", result |-> d.root, exc |-> NoExc]

Ended(t) == calls[t].pc \in {"returned", "raised"}

\* the call of caller t went through the cached default instance
ThroughDefault(t) ==
    /\ calls[t].pc \in {"create", "load", "run", "returned", "raised"}
    /\ IF calls[t].op = "encode"
       THEN calls[t].options = Null \/ calls[t].opts = DefaultOptions
       ELSE calls[t].options = Null

\* C15: a call made while another call is in progress, the two sharing the
\* cached default encoder or decoder (also when both found the global unset
\* and each created an instance), ends as the same call ends when made alone:
\* the same text or value returned, or the same error raised.
C15_SharedDefaultInstance ==
    \A t \in DOMAIN calls :
        Ended(t) =>
            /\ calls[t].pc = Alone(calls[t]).pc
            /\ calls[t].result = Alone(calls[t]).result
            /\ calls[t].exc = Alone(calls[t]).exc

\* both callers found _default_encoder unset and each stored an instance: the
\* first encoded with its own, which the second then replaced in the global
C15_Witness ==
    /\ calls # <<>>
    /\ \A t \in DOMAIN calls : calls[t].op = "encode" /\ calls[t].pc = "returned" /\ ThroughDefault(t)
    /\ calls[1].self.by = 1
    /\ calls[2].self.by = 2
    /\ default_encoder.by = 2

---------------------------------------------------------------------------
(* Cycles in the host value *)

\* the value holds an edge back to a container around it
RECURSIVE HasCycle(_)
HasCycle(v) ==
    \/ v.t = "ref"
    \/ v.t = "arr" /\ \E i \in 1..Len(v.items) : HasCycle(v.items[i])
    \/ v.t \in {"obj", "dict"} /\ \E i \in 1..Len(v.vals) : HasCycle(v.vals[i])

\* the names an error can give to the kind of a container
ContainerKinds == {"list", "dict", "mapping", "set", "tuple", "array", "object"}

\* encode got as far as Encoder.encode: its input and its options were accepted
Accepted(t) ==
    /\ calls[t].op = "encode"
    /\ calls[t].input \notin Rejected
    /\ calls[t].options \in GoodOptions

\* C16: encode of a host value with a cycle in its containers ends by raising
\* an error that names the kind of the container the cycle goes through; it
\* returns no text.
C16_CycleError ==
    \A t \in DOMAIN calls :
        (Accepted(t) /\ HasCycle(calls[t].input) /\ Ended(t)) =>
            /\ calls[t].pc = "raised"
            /\ calls[t].result = Unset
            /\ \E i \in 1..Len(calls[t].exc.msg) : calls[t].exc.msg[i] \in ContainerKinds

---------------------------------------------------------------------------
(* The inputs encode refuses *)

\* callable(value) holds: functions, methods, builtins, and the objects with
\* a __call__ of their own
IsCallable(v) ==
    \/ v.t \in {"function", "method", "builtin"}
    \/ v.t = "other" /\ v.type \in {"callable_instance", "partial", "method_descriptor"}

\* C17: encode raises a TypeError for a top-level input that is a callable,
\* a type or a module, and the value is not normalized before it does; any
\* other object of a type the normalizer does not know is normalized to null
\* and encoded as the text null, no error raised.
C17_RejectedInputs ==
    \A t \in DOMAIN calls :
        (calls[t].op = "encode" /\ Ended(t)) =>
            /\ (IsCallable(calls[t].input) \/ calls[t].input.t \in {"type", "module"}) =>
                  /\ calls[t].pc = "raised"
                  /\ calls[t].exc.type = "TypeError"
                  /\ calls[t].normalized = Unset
            /\ (calls[t].input.t = "other" /\ ~IsCallable(calls[t].input) /\ calls[t].options \in GoodOptions) =>
                  /\ calls[t].pc = "returned"
                  /\ calls[t].normalized = Null
                  /\ calls[t].result = Str(NULL_LITERAL)

---------------------------------------------------------------------------
(* The options encode refuses *)

\* what the statement asks of an ended encode call with these options
OptionsRefused(t) ==
    /\ calls[t].options \in NonDictOptions =>
          calls[t].pc = "raised" /\ calls[t].exc.type = "TypeError" /\ calls[t].result = Unset
    /\ calls[t].options \in BadOptions =>
          calls[t].pc = "raised" /\ calls[t].exc.type = "ValueError" /\ calls[t].result = Unset

---------------------------------------------------------------------------
(* Integers beyond 2**53 - 1 *)

\* the magnitudes of Longs above 2**53 - 1: 2**53, 2**53 + 1, 10**16, 10**20
\* and 9100000000000000
BeyondSafe ==
    {<<"9", "0", "0", "7", "1", "9", "9", "2", "5", "4", "7", "4", "0", "9", "9", "2">>,
     <<"9", "0", "0", "7", "1", "9", "9", "2", "5", "4", "7", "4", "0", "9", "9", "3">>,
     <<"1", "0", "0", "0", "0", "0", "0", "0", "0", "0", "0", "0", "0", "0", "0", "0", "0">>,
     <<"1", "0", "0", "0", "0", "0", "0", "0", "0", "0", "0", "0", "0", "0", "0", "0", "0", "0", "0", "0", "0">>,
     <<"9", "1", "0", "0", "0", "0", "0", "0", "0", "0", "0", "0", "0", "0", "0", "0">>}

\* the decimal text of a Long
Decimal(v) == (IF v.neg THEN <<"-">> ELSE <<>>) \o v.digits

\* C19: the normalizer turns an int n into the string of its decimal digits
\* exactly when |n| > 2**53 - 1 and leaves it an int otherwise, and encode
\* writes such a string between double quotes, the int as a bare numeral.
C19_LargeIntegers ==
    \A t \in DOMAIN calls :
        (Accepted(t) /\ Ended(t) /\ calls[t].input.t \in {"int", "long"}) =>
            /\ calls[t].pc = "returned"
            /\ IF calls[t].input.t = "long" /\ calls[t].input.digits \in BeyondSafe
               THEN /\ calls[t].normalized = Str(Decimal(calls[t].input))
                    /\ calls[t].result = Str(<<DOUBLE_QUOTE>> \o Decimal(calls[t].input) \o <<DOUBLE_QUOTE>>)
               ELSE /\ calls[t].normalized = calls[t].input
                    /\ calls[t].input.t = "long" => calls[t].result = Str(Decimal(calls[t].input))

\* encode(10**20) returned "100000000000000000000", quotes included
C19_Witness ==
    /\ calls # <<>>
    /\ calls[1].op = "encode"
    /\ calls[1].input = Long(FALSE, <<"1", "0", "0", "0", "0", "0", "0", "0", "0", "0", "0", "0", "0", "0", "0", "0", "0", "0", "0", "0", "0">>)
    /\ calls[1].pc = "returned"
    /\ calls[1].result = Str(<<DOUBLE_QUOTE>> \o calls[1].input.digits \o <<DOUBLE_QUOTE>>)

---------------------------------------------------------------------------
(* Normalizing twice *)

\* C20: normalize_value applied to a value it returned returns that value.
C20_NormalizeIdempotent ==
    \A t \in DOMAIN calls :
        (calls[t].op = "encode" /\ calls[t].pc = "returned") =>
            normalize_value(calls[t].normalized, <<>>, 1) = [err |-> NoErr, v |-> calls[t].normalized]

\* a dict with the keys 1 and "1" was normalized to an object with one key
C20_Witness ==
    /\ calls # <<>>
    /\ calls[1].op = "encode"
    /\ calls[1].pc = "returned"
    /\ calls[1].input = Dict(<<Int_(1), Str(<<"1">>)>>, <<Str(<<"x">>), Str(<<"y">>)>>)
    /\ calls[1].normalized = Obj(<<<<"1">>>>, <<Str(<<"y">>)>>)

---------------------------------------------------------------------------
(* Numerals with leading zeros *)

\* an optional minus sign, then two or more digits of which the first is 0
LeadingZeroNumeral(tok) ==
    LET body == IF tok # <<>> /\ tok[1] = "-" THEN Tail(tok) ELSE tok
    IN  /\ Len(body) > 1
        /\ body[1] = "0"
        /\ \A i \in 1..Len(body) : body[i] \in Digits

\* the documents holding such a token, with the value each stands for
LeadingZeroCases ==
    {[doc |-> <<"a", ":", " ">> \o tok, v |-> Obj(<< <<"a">> >>, <<Str(tok)>>)] : tok \in {t \in NumeralTokens : LeadingZeroNumeral(t)}}
    \cup {[doc |-> <<"0", "0", "7">>, v |-> Str(<<"0", "0", "7">>)],
          [doc |-> <<"[", "2", "]", ":", " ", "0", "0", "7", ",", "-", "0", "0">>,
           v |-> Arr(<<Str(<<"0", "0", "7">>), Str(<<"-", "0", "0">>)>>)],
          [doc |-> <<"[", "1", "]", ":", NEWLINE, " ", " ", "-", " ", "0", "1", "2", "3">>,
           v |-> Arr(<<Str(<<"0", "1", "2", "3">>)>>)],
          [doc |-> <<"x", "[", "1", "]", "{", "a", "}", ":", NEWLINE, " ", " ", "0", "0">>,
           v |-> Obj(<< <<"x">> >>, <<Arr(<<Obj(<< <<"a">> >>, <<Str(<<"0", "0">>)>>)>>)>>)]}

\* C21: an unquoted token that is an optional minus sign followed by two or
\* more digits starting with 0 decodes to the string of its characters, not
\* to a number, wherever a scalar can stand.
C21_LeadingZeros ==
    \A e \in LeadingZeroCases :
        (input.kind = "text" /\ input.doc = e.doc /\ Finished) => (pc = "done" /\ root = e.v)

\* the line a: 0123 was decoded to the string "0123" under the key a
C21_Witness ==
    /\ input.kind = "text"
    /\ input.doc = <<"a", ":", " ", "0", "1", "2", "3">>
    /\ pc = "done"
    /\ root = Obj(<< <<"a">> >>, <<Str(<<"0", "1", "2", "3">>)>>)

---------------------------------------------------------------------------
(* Array headers: the length marker and the delimiter marker *)

\* the delimiter a header names: its marker, comma when it has none
NamedDelimiter(c) == IF c.mark = <<>> THEN COMMA ELSE c.mark[1]

\* two tokens joined with sep, split on the named delimiter
CellsOf(c, x, y) == IF c.sep = NamedDelimiter(c) THEN <<x, y>> ELSE << x \o <<c.sep>> \o y >>

\* the row 1<sep>2 under the fields a<sep>b
HeaderRow(c) ==
    IF c.sep = NamedDelimiter(c)
    THEN Obj(<< <<"a">>, <<"b">> >>, <<Int_(1), Int_(2)>>)
    ELSE Obj(CellsOf(c, <<"a">>, <<"b">>), <<Str(<<"1", c.sep, "2">>)>>)

\* the array a header case stands for
HeaderArray(c) ==
    IF c.shape \in {"inline", "root_inline"}
    THEN Arr([i \in 1..c.n |-> Str(CellsOf(c, <<"a">>, <<"b">>)[i])])
    ELSE IF c.shape \in {"tabular", "root_tabular"}
    THEN Arr([i \in 1..c.n |-> HeaderRow(c)])
    ELSE Arr(SubSeq(<<Str(<<"a", c.sep, "b">>), Arr(<<Str(<<"c">>)>>)>>, 1, c.n))

HeaderValue(c) ==
    IF c.shape \in {"root_inline", "root_tabular"} THEN HeaderArray(c) ELSE Obj(<< <<"x">> >>, <<HeaderArray(c)>>)

\* inline values are as many as the header declares
HeaderAccepted(c) ==
    c.shape \in {"inline", "root_inline"} => c.n = Len(CellsOf(c, <<"a">>, <<"b">>))

\* C22: a header is read the same with and without "#", and the inline
\* values, the field list and the rows under it are split on the delimiter
\* its marker names, on comma when it has no marker: the decoded value is the
\* array of the cells so split, whatever character joins them in the text.
C22_HeaderMarkers ==
    \A c \in HeaderCases :
        (input.kind = "text" /\ input.doc = HeaderDoc(c) /\ Finished)
            => IF HeaderAccepted(c)
               THEN pc = "done" /\ root = HeaderValue(c)
               ELSE pc = "error" /\ err = ErrCounts("inline_length_mismatch", c.n, Len(CellsOf(c, <<"a">>, <<"b">>)))

C22_Witness ==
    /\ input.kind = "text"
    /\ input.doc = HeaderDoc([shape |-> "tabular", hash |-> TRUE, mark |-> <<PIPE>>, sep |-> PIPE, n |-> 2])
    /\ pc = "done"
    /\ root = Obj(<< <<"x">> >>, <<Arr(<<Obj(<< <<"a">>, <<"b">> >>, <<Int_(1), Int_(2)>>),
                                        Obj(<< <<"a">>, <<"b">> >>, <<Int_(1), Int_(2)>>)>>)>>)

---------------------------------------------------------------------------
(* The ends of the lines of the encoded text *)

\* some line of the text, as split at newlines, ends with a space
LineEndsWithSpace(t) == HasSub(t, <<SPACE, NEWLINE>>) \/ EndsWith(t, <<SPACE>>)

\* C23: for every value and every option combination, no line of the
\* encoded text ends with a space and the text does not end with a newline.
C23_NoTrailingSpace ==
    (IsEncodeRun /\ ~tampered /\ pc # "call_encode") =>
        /\ ~LineEndsWithSpace(text)
        /\ ~EndsWith(text, <<NEWLINE>>)

---------------------------------------------------------------------------
(* Elements left out of the encoded text *)

\* the number of array elements under v that are written nowhere: an element
\* that is an array holding something other than scalars gets no line
RECURSIVE Omitted(_)
RECURSIVE OmittedAmong(_)
OmittedAmong(vs) == IF vs = <<>> THEN 0 ELSE Omitted(Head(vs)) + OmittedAmong(Tail(vs))

Omitted(v) ==
    IF is_json_primitive(v) THEN 0
    ELSE IF is_json_object(v) THEN OmittedAmong(v.vals)
    ELSE OmittedAmong(SelectSeq(v.items, is_json_object))
           + Len(SelectSeq(v.items, LAMBDA e : is_json_array(e) /\ ~is_array_of_primitives(e)))

\* C24: whenever the encoder leaves an array element out of the text it
\* logs a warning for it: there are as many warnings as omitted elements.
C24_WarnedOmissions ==
    (IsEncodeRun /\ pc # "call_encode") => Len(warnings) = Omitted(input.v)

---------------------------------------------------------------------------
(* Lines after a complete root *)

\* a line with content has been read
RootEstablished == \E i \in 1..line_num : Strip(lines[i]) # <<>>

\* the next line has content, and the root is a scalar or an inline array
\* (nothing is open), or the root is an array and the line is not indented
LineAfterRoot ==
    /\ pc = "lines"
    /\ RootEstablished
    /\ line_num < Len(lines)
    /\ Strip(lines[line_num + 1]) # <<>>
    /\ \/ stack = <<>>
       \/ root.t = "arr" /\ lines[line_num + 1][1] # SPACE

\* C25: once the root is a scalar or an array and is complete, a further
\* line with content makes decode raise an error; the root is never replaced
\* by the value of a later line.
C25_RootNotReplaced == [][LineAfterRoot => pc' = "error"]_vars

---------------------------------------------------------------------------
(* The length a header declares and the elements written under it *)

\* the header of the array at the root: the first line up to its colon
RootHeader == parse_header(split_first_colon(splitlines(text)[1])[1])

\* the elements written for the array at the root: the values after the
\* colon, or else the lines one level in (hyphen items or tabular rows)
RootElementsWritten ==
    LET ls == splitlines(text)
        after == split_first_colon(ls[1])[2]
        unit == IF input.o.indent = 0 THEN 1 ELSE input.o.indent
    IN  IF after # <<>> THEN Len(split_values(after, RootHeader.delimiter))
        ELSE Cardinality({i \in 2..Len(ls) : LeadingSpaces(ls[i]) = unit})

\* C26: in every text the encoder writes, the length an array header
\* declares is the number of elements written for that array; stated here
\* for the array at the root.
C26_DeclaredLength ==
    (IsEncodeRun /\ pc # "call_encode" /\ input.v.t = "arr") =>
        /\ RootHeader.err = NoErr
        /\ RootHeader.length = RootElementsWritten

---------------------------------------------------------------------------
(* The writer's indent unit and the unit the decoder detects *)

\* the lines LineWriter.to_string joined: the text cut at each newline
RECURSIVE CutAtNewlines(_, _)
CutAtNewlines(t, buf) ==
    IF t = <<>> THEN <<buf>>
    ELSE IF Head(t) = NEWLINE THEN <<buf>> \o CutAtNewlines(Tail(t), <<>>)
    ELSE CutAtNewlines(Tail(t), Append(buf, Head(t)))

WrittenLines == CutAtNewlines(text, <<>>)

\* the spaces the writer puts before a line per level
WriterUnit == IF input.o.indent = 0 THEN 1 ELSE input.o.indent

\* C27: when the encoded text has an indented line, some line is indented
\* by exactly one unit of the writer, the decoder detects that unit, and the
\* decoder reads the lines the writer wrote, so each at its depth.
C27_IndentUnitRecovered ==
    (IsEncodeRun /\ pc # "call_encode" /\ \E i \in 1..Len(WrittenLines) : LeadingSpaces(WrittenLines[i]) > 0) =>
        /\ \E i \in 1..Len(WrittenLines) : LeadingSpaces(WrittenLines[i]) = WriterUnit
        /\ detect_indent_size(splitlines(text)) = WriterUnit
        /\ splitlines(text) = WrittenLines

---------------------------------------------------------------------------
(* A call on the cached instance after earlier calls *)

\* the outcome of the call's method on an instance constructed for it
FreshOutcome(c) ==
    IF c.op = "encode"
    THEN LET fresh == [class |-> "Encoder", indent |-> c.opts.indent, delimiter |-> c.opts.delimiter,
                       length_marker |-> c.opts.length_marker]
             r == normalize_value(c.input, <<>>, 1)
         IN  IF InputError(c.input) # NoExc THEN [pc |-> "raised", result |-> Unset]
             ELSE IF r.err # NoErr THEN [pc |-> "raised", result |-> Unset]
             ELSE [pc |-> "returned", result |-> Str(encode_value(fresh, r.v))]
    ELSE LET d == Decoder_decode(c.input.s)
         IN  IF d.err # NoErr THEN [pc |-> "raised", result |-> Unset]
             ELSE [pc |-> "returned", result |-> d.root]

\* the call ran on the cached instance that the other caller's call had stored
OnInstanceOfOther(t) == calls[t].self # Null /\ calls[t].self.by # t

\* C28: a call that runs on the cached default instance after another call
\* used it, whether that call returned or raised, returns or raises as its
\* method does on an instance constructed for this call alone.
C28_NoCarryOver ==
    \A t \in DOMAIN calls :
        (Ended(t) /\ OnInstanceOfOther(t)) =>
            /\ calls[t].pc = FreshOutcome(calls[t]).pc
            /\ calls[t].result = FreshOutcome(calls[t]).result

\* the first call raised inside Encoder.encode on the instance it had stored;
\* the second call then encoded on that instance
C28_Witness ==
    /\ calls # <<>>
    /\ calls[1].op = "encode" /\ calls[1].pc = "raised" /\ calls[1].self # Null /\ calls[1].self.by = 1
    /\ default_encoder # Null /\ default_encoder.by = 1
    /\ calls[2].op = "encode" /\ calls[2].pc = "returned" /\ calls[2].self.by = 1
    /\ calls[2].result = Str(<<"[", "2", "]", ":", " ", "1", ",", "a">>)

---------------------------------------------------------------------------
(* Line breaks inside the encoded text *)

\* C29: every key, scalar, header and row the encoder writes is one line to
\* the decoder: no character at which the decoder cuts lines is written raw,
\* so the decoder's lines are the lines the writer pushed.
C29_OneLineEach ==
    (IsEncodeRun /\ pc # "call_encode" /\ text # <<>>) =>
        /\ splitlines(text) = WrittenLines
        /\ \A i \in 1..Len(WrittenLines) : \A j \in 1..Len(WrittenLines[i]) : WrittenLines[i][j] \notin LineBreaks

---------------------------------------------------------------------------
(* The depths of the contexts on the stack *)

\* content_depth does not decrease from the bottom of the stack to the top
StackOrdered == \A i, j \in 1..Len(stack) : i < j => stack[i].content_depth <= stack[j].content_depth

\* the depth of the line the loop reads next
NextLineDepth == calc_depth_and_content(lines[line_num + 1], indent_size).depth

\* a row was appended to the array of the tabular context ctx
RowAppended(ctx) ==
    LET before == GetAt(root, ctx.path)
        after == GetAt(root', ctx.path)
    IN  /\ ctx.kind = "array_tabular"
        /\ after.t = "arr"
        /\ Len(after.items) = Len(before.items) + 1
        /\ SubSeq(after.items, 1, Len(before.items)) = before.items

\* the contexts whose object or array the step changes: those it keeps on
\* the stack, and the tabular context it pops once its last row is read
Receivers ==
    {i \in 1..Len(stack) :
        /\ i - 1 <= Len(stack')
        /\ SubSeq(stack', 1, i - 1) = SubSeq(stack, 1, i - 1)
        /\ GetAt(root', stack[i].path) # GetAt(root, stack[i].path)
        /\ \/ i <= Len(stack') /\ stack'[i] = stack[i]
           \/ i - 1 = Len(stack') /\ RowAppended(stack[i])}

\* a line with content is read, the root stays the root, and the step adds
\* to the object or array of some context of the stack
LineAdded ==
    /\ pc = "lines" /\ pc' = "lines"
    /\ line_num' = line_num + 1
    /\ Strip(lines[line_num + 1]) # <<>>
    /\ stack # <<>>
    /\ Receivers # {}

\* the context that received the line: the innermost one changed
Receiver == stack[CHOOSE i \in Receivers : \A j \in Receivers : j <= i]

\* C30: at every step of decoding the content_depth of the contexts on the
\* stack does not decrease from bottom to top, and the content of a line is
\* added to a context only when the line's depth is that context's
\* content_depth.
C30_ContentDepth == [](StackOrdered) /\ [][LineAdded => Receiver.content_depth = NextLineDepth]_vars

\* the line b[1]: 1 at depth 0 was added to the root object, whose
\* content_depth is 0, after the context of the object under a, whose
\* content_depth is 1, was popped
C30_Witness ==
    /\ IsEncodeRun
    /\ input.v = Obj(<< <<"a">>, <<"b">> >>, <<Obj(<< <<"a">> >>, <<Int_(1)>>), Arr(<<Int_(1)>>)>>)
    /\ pc = "lines"
    /\ line_num = 3
    /\ Len(stack) = 1 /\ stack[1].kind = "object" /\ stack[1].content_depth = 0
    /\ root = input.v

====
